---- MODULE Spec2Model ----
(***************************************************************************)
(* Shifted-window geometry of the multi-modal 3D Swin encoder              *)
(* (src/model.py): window partitioning, effective window/shift, padding,   *)
(* cyclic roll, the memoised attention mask and the relative position      *)
(* index of the windowed attention modules.                                *)
(*                                                                         *)
(* Tensors are records [shape, data]: shape is the tuple of dimension      *)
(* sizes, data the row-major (contiguous) element array.                    *)
(* An element of a stream is the set of input elements <<stream, index>>   *)
(* its value is computed from; the zero written by F.pad is the empty set. *)
(***************************************************************************)
EXTENDS Integers, Sequences, FiniteSets, TLC

VARIABLES blk, inp, out, pc, cache, seen, last, attn, fwd, stage, dcn, mha

vars == <<blk, inp, out, pc, cache, seen, last, attn, fwd, stage, dcn, mha>>

blockVars == <<blk, inp, out, pc>>
cacheVars == <<cache, seen, last>>
attnVars == <<attn, fwd>>
stageVars == <<stage>>
convVars == <<dcn>>
headVars == <<mha>>

(***************************************************************************)
(* Bounds of the model.                                                    *)
(***************************************************************************)
\* Largest depth extent D of a stream (H and W range over HWExtents).
MaxD == 3
\* Number of distinct keys the scan of SpecLru may pass to compute_mask.
MaxKeys == 130
\* Largest window edge in SpecMask.
MaxMaskWin == 2

\* functools.lru_cache() without arguments: maxsize defaults to 128.
maxsize == 128

\* Python None where a tensor is expected (mask_matrix, mask).
None == [shape |-> <<-1>>, data |-> <<>>]

(***************************************************************************)
(* Tensor primitives (torch semantics of view / permute / pad / roll /     *)
(* slicing on contiguous row-major storage).                               *)
(***************************************************************************)
RECURSIVE Prod(_)
Prod(s) == IF Len(s) = 0 THEN 1 ELSE s[1] * Prod(Tail(s))

Stride(shape, i) == Prod(SubSeq(shape, i + 1, Len(shape)))

\* Row-major strides of a contiguous tensor of the given shape.
Strides(shape) == [i \in 1..Len(shape) |-> Stride(shape, i)] \o <<>>

Coord(k, shape, i) == (k \div Stride(shape, i)) % shape[i]

RECURSIVE FlatFrom(_, _, _)
FlatFrom(m, st, i) ==
    IF i > Len(st) THEN 0 ELSE m[i] * st[i] + FlatFrom(m, st, i + 1)

\* Flat index of multi-index m under strides st.
FlatS(m, st) == FlatFrom(m, st, 1)

Flat(m, shape) == FlatS(m, Strides(shape))

\* data holds the element of flat (0-based) index k at position k + 1.
Tensor(shape, data) == [shape |-> shape, data |-> data \o <<>>]

Get(x, k) == x.data[k + 1]

numel(x) == Prod(x.shape)

\* x.view(shape): same storage, new shape; one entry may be -1 (inferred).
view(x, shape) ==
    LET known == Prod([i \in 1..Len(shape) |-> IF shape[i] = -1 THEN 1 ELSE shape[i]])
        full == [i \in 1..Len(shape) |->
                    IF shape[i] = -1 THEN numel(x) \div known ELSE shape[i]]
    IN Tensor(full, x.data)

\* x.permute(dims).contiguous(): dims are 0-based axis numbers; axis i of
\* the result walks axis dims[i] of x.
permute(x, dims) ==
    LET newshape == [i \in 1..Len(dims) |-> x.shape[dims[i] + 1]] \o <<>>
        ns == Strides(newshape)
        os == Strides(x.shape)
        walk == [i \in 1..Len(dims) |-> os[dims[i] + 1]] \o <<>>
        src(k) == FlatS([i \in 1..Len(dims) |-> (k \div ns[i]) % newshape[i]], walk)
        n == Prod(newshape)
    IN Tensor(newshape, [k1 \in 1..n |-> Get(x, src(k1 - 1))])

\* F.pad(x, pad, value) in constant mode: pad lists (low, high) pairs
\* starting at the LAST dimension.
\* The low-side pad read from the high-side slot of the pair.
padLow_from_high_slot(n, pad, a) ==
    LET j == 2 * (n - a) + 2 IN IF j <= Len(pad) THEN pad[j] ELSE 0

padLow(n, pad, a) ==
    LET j == 2 * (n - a) + 1 IN IF j <= Len(pad) THEN pad[j] ELSE 0

padHigh(n, pad, a) ==
    LET j == 2 * (n - a) + 2 IN IF j <= Len(pad) THEN pad[j] ELSE 0

F_pad(x, pad, value) ==
    LET n == Len(x.shape)
        lo == [a \in 1..n |-> padLow(n, pad, a)] \o <<>>
        newshape == [a \in 1..n |-> lo[a] + x.shape[a] + padHigh(n, pad, a)] \o <<>>
        ns == Strides(newshape)
        os == Strides(x.shape)
        val(k) == LET o == [a \in 1..n |-> ((k \div ns[a]) % newshape[a]) - lo[a]]
                  IN IF \A a \in 1..n : o[a] >= 0 /\ o[a] < x.shape[a]
                     THEN Get(x, FlatS(o, os))
                     ELSE value
    IN Tensor(newshape, [k1 \in 1..Prod(newshape) |-> val(k1 - 1)])

\* A roll that moves nothing.
roll_nothing(x, shifts, dims) == x

\* torch.roll(x, shifts, dims): the element at index i moves to (i + shift) mod n.
roll(x, shifts, dims) ==
    LET n == Len(x.shape)
        st == Strides(x.shape)
        sh == [a \in 1..n |->
                 IF \E i \in 1..Len(dims) : dims[i] + 1 = a
                 THEN shifts[CHOOSE i \in 1..Len(dims) : dims[i] + 1 = a]
                 ELSE 0] \o <<>>
        src(k) == FlatS([a \in 1..n |->
                            (((k \div st[a]) % x.shape[a]) - sh[a]) % x.shape[a]], st)
    IN Tensor(x.shape, [k1 \in 1..numel(x) |-> Get(x, src(k1 - 1))])

\* x[:, :D, :H, :W, :].contiguous()
crop(x, D, H, W) ==
    LET newshape == <<x.shape[1], D, H, W, x.shape[5]>>
        ns == Strides(newshape)
        os == Strides(x.shape)
    IN Tensor(newshape,
              [k1 \in 1..Prod(newshape) |->
                  Get(x, FlatS([a \in 1..5 |-> ((k1 - 1) \div ns[a]) % newshape[a]], os))])

\* Element of a 5-d tensor at (b, d, h, w, c), 0-based.
At(x, b, d, h, w, c) == Get(x, Flat(<<b, d, h, w, c>>, x.shape))

(***************************************************************************)
(* Window geometry.                                                        *)
(***************************************************************************)
window_partition(x, window_size) ==
    LET B == x.shape[1]
        D == x.shape[2]
        H == x.shape[3]
        W == x.shape[4]
        C == x.shape[5]
        x1 == view(x, <<B, D \div window_size[1], window_size[1],
                        H \div window_size[2], window_size[2],
                        W \div window_size[3], window_size[3], C>>)
    IN view(permute(x1, <<0, 1, 3, 5, 2, 4, 6, 7>>), <<-1, Prod(window_size), C>>)

\* window_reverse with the permutation of window_partition reused.
window_reverse_same_permutation(windows, window_size, B, D, H, W) ==
    LET x == view(windows, <<B, D \div window_size[1], H \div window_size[2],
                             W \div window_size[3], window_size[1], window_size[2],
                             window_size[3], -1>>)
    IN view(permute(x, <<0, 1, 3, 5, 2, 4, 6, 7>>), <<B, D, H, W, -1>>)

window_reverse(windows, window_size, B, D, H, W) ==
    LET x == view(windows, <<B, D \div window_size[1], H \div window_size[2],
                             W \div window_size[3], window_size[1], window_size[2],
                             window_size[3], -1>>)
    IN view(permute(x, <<0, 1, 4, 2, 5, 3, 6, 7>>), <<B, D, H, W, -1>>)

\* get_window_size collapsing only when the extent is strictly smaller.
get_window_size_strict(x_size, window_size, shift_size) ==
    [use_window_size |->
        [i \in 1..Len(x_size) |->
            IF x_size[i] < window_size[i] THEN x_size[i] ELSE window_size[i]],
     use_shift_size |->
        [i \in 1..Len(x_size) |->
            IF x_size[i] < window_size[i] THEN 0 ELSE shift_size[i]]]

get_window_size(x_size, window_size, shift_size) ==
    [use_window_size |->
        [i \in 1..Len(x_size) |->
            IF x_size[i] <= window_size[i] THEN x_size[i] ELSE window_size[i]],
     use_shift_size |->
        [i \in 1..Len(x_size) |->
            IF x_size[i] <= window_size[i] THEN 0 ELSE shift_size[i]]]

(***************************************************************************)
(* Shifted-window attention mask (the body wrapped by lru_cache).          *)
(***************************************************************************)
\* Index sets selected on an axis of length L by the three Python slices
\* slice(-w), slice(-w, -s), slice(-s, None).  A negative bound n counts from
\* the end (L + n, clamped at 0); -0 is 0, the start of the axis.
PyBound(n, L) == IF n < 0 THEN (IF L + n < 0 THEN 0 ELSE L + n)
                 ELSE (IF n > L THEN L ELSE n)

SliceTo(stop, L) == {i \in 0..(L - 1) : i < PyBound(stop, L)}

SliceFromTo(start, stop, L) ==
    {i \in 0..(L - 1) : PyBound(start, L) <= i /\ i < PyBound(stop, L)}

\* The last slice selecting nothing.
SliceFrom_nothing(start, L) == {}

SliceFrom(start, L) == {i \in 0..(L - 1) : PyBound(start, L) <= i}

AxisSlice(n, w, s, L) ==
    CASE n = 0 -> SliceTo(-w, L)
      [] n = 1 -> SliceFromTo(-w, -s, L)
      [] n = 2 -> SliceFrom(-s, L)

\* The triple loop: iteration cnt = 9a + 3b + c writes cnt into the voxels
\* of slice a x slice b x slice c, later iterations overwriting earlier ones.
RECURSIVE fill_img_mask(_, _, _, _)
fill_img_mask(img, cnt, window_size, shift_size) ==
    IF cnt = 27 THEN img
    ELSE LET d == AxisSlice(cnt \div 9, window_size[1], shift_size[1], img.shape[2])
             h == AxisSlice((cnt \div 3) % 3, window_size[2], shift_size[2], img.shape[3])
             w == AxisSlice(cnt % 3, window_size[3], shift_size[3], img.shape[4])
             st == Strides(img.shape)
             next == Tensor(img.shape,
                        [k1 \in 1..numel(img) |->
                            IF /\ ((k1 - 1) \div st[2]) % img.shape[2] \in d
                               /\ ((k1 - 1) \div st[3]) % img.shape[3] \in h
                               /\ ((k1 - 1) \div st[4]) % img.shape[4] \in w
                            THEN cnt ELSE img.data[k1]])
         \* an assignment through an empty slice writes nothing
         IN IF d = {} \/ h = {} \/ w = {}
            THEN fill_img_mask(img, cnt + 1, window_size, shift_size)
            ELSE fill_img_mask(next, cnt + 1, window_size, shift_size)

\* Only positive differences masked.
masked_fill_positive(diff) == IF diff > 0 THEN -100 ELSE 0

\* masked_fill(attn_mask != 0, -100.0).masked_fill(attn_mask == 0, 0.0)
masked_fill_pair(diff) == IF diff # 0 THEN -100 ELSE 0

compute_mask_body(D, H, W, window_size, shift_size, device) ==
    LET zeros == Tensor(<<1, D, H, W, 1>>, [k1 \in 1..(D * H * W) |-> 0])
        img_mask == fill_img_mask(zeros, 0, window_size, shift_size)
        mask_windows == window_partition(img_mask, window_size)
        nW == mask_windows.shape[1]
        N == mask_windows.shape[2]
        \* mask_windows.squeeze(-1)[k][i]
        mw(k, i) == Get(mask_windows, k * N + i)
        attn_mask == Tensor(<<nW, N, N>>,
              [q1 \in 1..(nW * N * N) |->
                  LET k == (q1 - 1) \div (N * N)
                      i == ((q1 - 1) \div N) % N
                      j == (q1 - 1) % N
                  IN masked_fill_pair(mw(k, j) - mw(k, i))])
    IN [shape |-> attn_mask.shape, data |-> attn_mask.data, device |-> device]

(***************************************************************************)
(* compute_mask behind @lru_cache(): cache lists [key, result] entries     *)
(* from least to most recently used.  seen (all keys ever passed, least    *)
(* recently passed first) and last (what the latest call did) are history  *)
(* variables.                                                              *)
(***************************************************************************)
\* Lookup that leaves the device out of the key.
CacheIndex_ignoring_device(c, key) ==
    IF \E i \in 1..Len(c) : SubSeq(c[i].key, 1, 5) = SubSeq(key, 1, 5)
    THEN CHOOSE i \in 1..Len(c) : SubSeq(c[i].key, 1, 5) = SubSeq(key, 1, 5)
    ELSE 0

\* Position of key in cache c, 0 when absent.
CacheIndex(c, key) ==
    IF \E i \in 1..Len(c) : c[i].key = key
    THEN CHOOSE i \in 1..Len(c) : c[i].key = key
    ELSE 0

Without(c, i) == SubSeq(c, 1, i - 1) \o SubSeq(c, i + 1, Len(c))

\* A hit that leaves the entry where it is (first in, first out).
cache_hit_no_refresh(c, i) == c

\* A hit moves the entry to the most recently used end.
cache_hit(c, i) == Append(Without(c, i), c[i])

\* A miss inserts the result, dropping the least recently used entry of a
\* full cache.
cache_insert(c, entry) ==
    IF Len(c) >= maxsize THEN Append(Tail(c), entry) ELSE Append(c, entry)

SeenIndex(key) ==
    IF \E i \in 1..Len(seen) : seen[i] = key
    THEN CHOOSE i \in 1..Len(seen) : seen[i] = key
    ELSE 0

\* One call of the cached function: what it does to the cache.
compute_mask_call(key) ==
    LET i == CacheIndex(cache, key)
        j == SeenIndex(key)
        \* distinct other keys passed since this key was last passed; -1: never passed
        since == IF j = 0 THEN -1 ELSE Len(seen) - j
        built == compute_mask_body(key[1], key[2], key[3], key[4], key[5], key[6])
    IN /\ IF i > 0
          THEN /\ cache' = cache_hit(cache, i)
               /\ last' = [op |-> "compute_mask", key |-> key, result |-> cache[i].result,
                           hit |-> TRUE, body_runs |-> 0, since |-> since]
          ELSE /\ cache' = cache_insert(cache, [key |-> key, result |-> built])
               /\ last' = [op |-> "compute_mask", key |-> key, result |-> built,
                           hit |-> FALSE, body_runs |-> 1, since |-> since]
       /\ seen' = (IF j = 0 THEN seen ELSE Without(seen, j)) \o <<key>>

compute_mask(key) ==
    /\ compute_mask_call(key)
    /\ UNCHANGED <<blockVars, attnVars, stageVars, convVars, headVars>>

(***************************************************************************)
(* Windowed attention, as far as the data flow goes.  attn_mode stands for *)
(* the weights: "identity" is attention replaced by the identity map on    *)
(* the query tokens, "mixing" is any attention whose softmax gives every   *)
(* token of the window a non-zero weight (the mask is additive and finite, *)
(* so in exact arithmetic it changes weights, never the set of tokens      *)
(* read), "masked" is attention in which exp(-100 + ...) has underflowed   *)
(* to 0, so a token reads only the tokens its mask row holds 0 for.        *)
(* x has shape (B_, N, C).                                                 *)
(***************************************************************************)
\* Everything window b of x is computed from.
WindowDeps(x) ==
    LET NC == x.shape[2] * x.shape[3]
    IN [b1 \in 1..x.shape[1] |->
           UNION {x.data[(b1 - 1) * NC + e] : e \in 1..NC}] \o <<>>

\* Everything token (b, i) of x is computed from.
TokenDeps(x, k1) ==
    LET C == x.shape[3]
    IN UNION {x.data[((k1 - 1) \div C) * C + c] : c \in 1..C}

\* Everything token i of window b reads from the tokens of y that its mask
\* row leaves at 0: attn.view(B_ // nW, nW, nH, N, N) + mask puts row
\* mask[b % nW][i] on window b.
MaskedDeps(y, mask) ==
    LET N == y.shape[2]
        C == y.shape[3]
        nW == mask.shape[1]
        tok == [t1 \in 1..(y.shape[1] * N) |->
                   UNION {y.data[(t1 - 1) * C + c] : c \in 1..C}] \o <<>>
    IN [t1 \in 1..(y.shape[1] * N) |->
           LET b == (t1 - 1) \div N
               i == (t1 - 1) % N
           IN UNION {tok[b * N + j + 1] :
                        j \in {j \in 0..(N - 1) :
                                  Get(mask, ((b % nW) * N + i) * N + j) = 0}}] \o <<>>

\* Self-attention reading every window of the batch.
SelfWindowAttention3D_forward_across_windows(attn_mode, x, mask) ==
    IF attn_mode = "identity" THEN x
    ELSE Tensor(x.shape, [k1 \in 1..numel(x) |-> UNION {x.data[e] : e \in 1..numel(x)}])

SelfWindowAttention3D_forward(attn_mode, x, mask) ==
    IF attn_mode = "identity" THEN x
    ELSE IF attn_mode = "masked" /\ mask # None
    THEN LET md == MaskedDeps(x, mask)
             C == x.shape[3]
         IN Tensor(x.shape, [k1 \in 1..numel(x) |-> md[((k1 - 1) \div C) + 1]])
    ELSE LET wd == WindowDeps(x)
             NC == x.shape[2] * x.shape[3]
         IN Tensor(x.shape, [k1 \in 1..numel(x) |-> wd[((k1 - 1) \div NC) + 1]])

\* Cross-attention that reads its query stream only.
CrossWindowAttention3D_forward_query_only(attn_mode, x, y, mask) ==
    IF attn_mode = "identity" THEN x
    ELSE Tensor(x.shape, [k1 \in 1..numel(x) |-> TokenDeps(x, k1)])

CrossWindowAttention3D_forward(attn_mode, x, y, mask) ==
    IF attn_mode = "identity" THEN x
    ELSE IF attn_mode = "masked" /\ mask # None
    THEN LET md == MaskedDeps(y, mask)
             C == x.shape[3]
         IN Tensor(x.shape,
                   [k1 \in 1..numel(x) |-> TokenDeps(x, k1) \cup md[((k1 - 1) \div C) + 1]])
    ELSE LET wd == WindowDeps(y)
             NC == x.shape[2] * x.shape[3]
         IN Tensor(x.shape,
                   [k1 \in 1..numel(x) |-> TokenDeps(x, k1) \cup wd[((k1 - 1) \div NC) + 1]])

\* a + b on tensors of equal shape.
add(a, b) == Tensor(a.shape, [k1 \in 1..numel(a) |-> a.data[k1] \cup b.data[k1]])

\* nn.LayerNorm(dim): every channel of a voxel is computed from all its channels.
LayerNorm(x) ==
    LET C == x.shape[Len(x.shape)]
    IN Tensor(x.shape,
              [k1 \in 1..numel(x) |->
                  UNION {x.data[((k1 - 1) \div C) * C + c] : c \in 1..C}])

\* any(...) looking at the first axis only.
any_positive_first_axis(t) == t[1] > 0

\* any(i > 0 for i in shift_size)
any_positive(t) == \E i \in 1..Len(t) : t[i] > 0

neg(t) == [i \in 1..Len(t) |-> 0 - t[i]]

(***************************************************************************)
(* SwinTransformerBlock3D.forward_part1.  The result carries the four      *)
(* returned streams and what the pass did on the way: effective window and *)
(* shift, padding, rolls and the mask handed to each attention call.       *)
(***************************************************************************)
SwinTransformerBlock3D_forward_part1(self, t1, t1ce, t2, flair, mask_matrix, cross) ==
    LET D == t1.shape[2]
        H == t1.shape[3]
        W == t1.shape[4]
        B == t1.shape[1]
        g == get_window_size(<<D, H, W>>, self.window_size, self.shift_size)
        window_size == g.use_window_size
        shift_size == g.use_shift_size
        pad_d1 == (window_size[1] - (D % window_size[1])) % window_size[1]
        pad_b == (window_size[2] - (H % window_size[2])) % window_size[2]
        pad_r == (window_size[3] - (W % window_size[3])) % window_size[3]
        pad == <<0, 0, 0, pad_r, 0, pad_b, 0, pad_d1>>
        p1 == F_pad(LayerNorm(t1), pad, {})
        p1ce == F_pad(LayerNorm(t1ce), pad, {})
        p2 == F_pad(LayerNorm(t2), pad, {})
        pflair == F_pad(LayerNorm(flair), pad, {})
        Dp == p1.shape[2]
        Hp == p1.shape[3]
        Wp == p1.shape[4]
        shifted == any_positive(shift_size)
        roll_before == IF shifted THEN neg(shift_size) ELSE <<>>
        roll_after == IF shifted THEN shift_size ELSE <<>>
        pre(x) == IF roll_before # <<>> THEN roll(x, roll_before, <<1, 2, 3>>) ELSE x
        attn_mask == IF shifted THEN mask_matrix ELSE None
        t1_windows == window_partition(pre(p1), window_size)
        t1ce_windows == window_partition(pre(p1ce), window_size)
        t2_windows == window_partition(pre(p2), window_size)
        flair_windows == window_partition(pre(pflair), window_size)
        m == self.attn_mode
        a1 == IF cross = FALSE
              THEN SelfWindowAttention3D_forward(m, t1_windows, attn_mask)
              ELSE add(SelfWindowAttention3D_forward(m, t1_windows, attn_mask),
                       CrossWindowAttention3D_forward(m, t1_windows, t1ce_windows, attn_mask))
        a1ce == IF cross = FALSE
                THEN SelfWindowAttention3D_forward(m, t1ce_windows, attn_mask)
                ELSE add(SelfWindowAttention3D_forward(m, t1ce_windows, attn_mask),
                         CrossWindowAttention3D_forward(m, t1ce_windows, t1_windows, attn_mask))
        a2 == IF cross = FALSE
              THEN SelfWindowAttention3D_forward(m, t2_windows, attn_mask)
              ELSE add(SelfWindowAttention3D_forward(m, t2_windows, attn_mask),
                       CrossWindowAttention3D_forward(m, t2_windows, flair_windows, attn_mask))
        aflair == IF cross = FALSE
                  THEN SelfWindowAttention3D_forward(m, flair_windows, attn_mask)
                  ELSE add(SelfWindowAttention3D_forward(m, flair_windows, attn_mask),
                           CrossWindowAttention3D_forward(m, flair_windows, t2_windows, attn_mask))
        merged(a) == window_reverse(view(a, <<-1>> \o window_size \o <<t1.shape[5]>>),
                                    window_size, B, Dp, Hp, Wp)
        post(x) == IF roll_after # <<>> THEN roll(x, roll_after, <<1, 2, 3>>) ELSE x
        cropped == pad_d1 > 0 \/ pad_r > 0 \/ pad_b > 0
        fin(a) == IF cropped THEN crop(post(merged(a)), D, H, W) ELSE post(merged(a))
        self_names == <<"self_attn_t1", "self_attn_t1ce", "self_attn_t2", "self_attn_flair">>
        cross_names == <<"cross_attn_1", "cross_attn_1", "cross_attn_2", "cross_attn_2">>
        names == <<"t1", "t1ce", "t2", "flair">>
        partner == <<"t1ce", "t1", "flair", "t2">>
    IN [streams |-> <<fin(a1), fin(a1ce), fin(a2), fin(aflair)>>,
        window_size |-> window_size,
        shift_size |-> shift_size,
        pads |-> <<pad_d1, pad_b, pad_r>>,
        padded |-> <<p1, p1ce, p2, pflair>>,
        roll_before |-> roll_before,
        roll_after |-> roll_after,
        attn_calls |-> IF cross = FALSE
                       THEN [i \in 1..4 |->
                               [module |-> self_names[i], query |-> names[i],
                                key_value |-> names[i], mask |-> attn_mask]]
                       ELSE [i \in 1..8 |->
                               [module |-> IF i % 2 = 1 THEN self_names[(i + 1) \div 2]
                                           ELSE cross_names[i \div 2],
                                query |-> names[(i + 1) \div 2],
                                key_value |-> IF i % 2 = 1 THEN names[(i + 1) \div 2]
                                              ELSE partner[i \div 2],
                                mask |-> attn_mask]],
        cropped |-> cropped]

(***************************************************************************)
(* BottleneckBlock3D.forward_part1 (one stream, self-attention only).      *)
(***************************************************************************)
BottleneckBlock3D_forward_part1(self, x, mask_matrix, cross) ==
    LET B == x.shape[1]
        D == x.shape[2]
        H == x.shape[3]
        W == x.shape[4]
        g == get_window_size(<<D, H, W>>, self.window_size, self.shift_size)
        window_size == g.use_window_size
        shift_size == g.use_shift_size
        pad_d1 == (window_size[1] - (D % window_size[1])) % window_size[1]
        pad_b == (window_size[2] - (H % window_size[2])) % window_size[2]
        pad_r == (window_size[3] - (W % window_size[3])) % window_size[3]
        px == F_pad(LayerNorm(x), <<0, 0, 0, pad_r, 0, pad_b, 0, pad_d1>>, {})
        Dp == px.shape[2]
        Hp == px.shape[3]
        Wp == px.shape[4]
        shifted == any_positive(shift_size)
        roll_before == IF shifted THEN neg(shift_size) ELSE <<>>
        roll_after == IF shifted THEN shift_size ELSE <<>>
        shifted_x == IF roll_before # <<>> THEN roll(px, roll_before, <<1, 2, 3>>) ELSE px
        attn_mask == IF shifted THEN mask_matrix ELSE None
        x_windows == window_partition(shifted_x, window_size)
        attn_windows_x == SelfWindowAttention3D_forward(self.attn_mode, x_windows, attn_mask)
        merged == window_reverse(view(attn_windows_x, <<-1>> \o window_size \o <<x.shape[5]>>),
                                 window_size, B, Dp, Hp, Wp)
        unrolled == IF roll_after # <<>> THEN roll(merged, roll_after, <<1, 2, 3>>) ELSE merged
        cropped == pad_d1 > 0 \/ pad_r > 0 \/ pad_b > 0
    IN [streams |-> <<IF cropped THEN crop(unrolled, D, H, W) ELSE unrolled>>,
        window_size |-> window_size,
        shift_size |-> shift_size,
        pads |-> <<pad_d1, pad_b, pad_r>>,
        padded |-> <<px>>,
        roll_before |-> roll_before,
        roll_after |-> roll_after,
        attn_calls |-> <<[module |-> "self_attn_x", query |-> "x", key_value |-> "x",
                          mask |-> attn_mask]>>,
        cropped |-> cropped]

(***************************************************************************)
(* Blocks: construction (with the shift assertions) and one forward pass.  *)
(***************************************************************************)
NoBlock == [kind |-> "none"]
NoInput == [shape |-> <<>>]
NoOutput == [streams |-> <<>>]
NoAttn == [window_size |-> <<>>]
NoStage == [pc |-> "none"]
NoConv == [pc |-> "none"]
NoHeads == [pc |-> "none"]

\* Assertions that look at the first axis only.
shift_assertions_first_axis(window_size, shift_size) ==
    0 <= shift_size[1] /\ shift_size[1] < window_size[1]

\* The three assertions of both block constructors.
shift_assertions(window_size, shift_size) ==
    /\ 0 <= shift_size[1] /\ shift_size[1] < window_size[1]
    /\ 0 <= shift_size[2] /\ shift_size[2] < window_size[2]
    /\ 0 <= shift_size[3] /\ shift_size[3] < window_size[3]

\* Configurations a block is constructed with (shifts include values the
\* assertions reject) and the (B, D, H, W, C) shapes of the streams it is run on.
WindowSizes == {1, 2} \X {1, 2} \X {1, 2}
ShiftSizes == {-1, 0, 1, 2} \X {-1, 0, 1, 2} \X {-1, 0, 1, 2}
HWExtents == {1, 2, 3}
Shapes == {2} \X (1..MaxD) \X HWExtents \X HWExtents \X {1}
AttnModes == {"identity"}

\* Input stream s of a given shape: element k is computed from itself only.
Stream(s, shape) == Tensor(shape, [k1 \in 1..Prod(shape) |-> {<<s, k1 - 1>>}])

CeilMul(e, w) == ((e + w - 1) \div w) * w

\* A mask geometry taken from the configured window, not the effective one.
stage_key_nominal(D, H, W, window_size, device) ==
    <<CeilMul(D, window_size[1]), CeilMul(H, window_size[2]), CeilMul(W, window_size[3]),
      window_size, [i \in 1..3 |-> window_size[i] \div 2], device>>

\* The attn_mask a stage (BasicLayer.forward) or the encoder hands to its
\* blocks for streams of extent (D, H, W).
stage_key(D, H, W, window_size, device) ==
    LET g == get_window_size(<<D, H, W>>, window_size,
                             [i \in 1..3 |-> window_size[i] \div 2])
        ws == g.use_window_size
    IN <<CeilMul(D, ws[1]), CeilMul(H, ws[2]), CeilMul(W, ws[3]),
         ws, g.use_shift_size, device>>

stage_attn_mask(D, H, W, window_size) ==
    LET key == stage_key(D, H, W, window_size, "cpu")
    IN compute_mask_body(key[1], key[2], key[3], key[4], key[5], key[6])

Construct(kind, window_size, shift_size, attn_mode) ==
    /\ pc = "start"
    /\ IF shift_assertions(window_size, shift_size)
       THEN /\ blk' = [kind |-> kind, window_size |-> window_size,
                       shift_size |-> shift_size, attn_mode |-> attn_mode]
            /\ pc' = "built"
       ELSE /\ blk' = NoBlock
            /\ pc' = "AssertionError"
    /\ UNCHANGED <<inp, out, cacheVars, attnVars, stageVars, convVars, headVars>>

SwinForward(shape, mask_matrix, cross) ==
    /\ pc = "built"
    /\ blk.kind = "SwinTransformerBlock3D"
    /\ inp' = [shape |-> shape, mask_matrix |-> mask_matrix, cross |-> cross]
    /\ out' = SwinTransformerBlock3D_forward_part1(blk, Stream("t1", shape),
                  Stream("t1ce", shape), Stream("t2", shape), Stream("flair", shape),
                  mask_matrix, cross)
    /\ pc' = "done"
    /\ UNCHANGED <<blk, cacheVars, attnVars, stageVars, convVars, headVars>>

BottleneckForward(shape, mask_matrix) ==
    /\ pc = "built"
    /\ blk.kind = "BottleneckBlock3D"
    /\ inp' = [shape |-> shape, mask_matrix |-> mask_matrix, cross |-> FALSE]
    /\ out' = BottleneckBlock3D_forward_part1(blk, Stream("x", shape), mask_matrix, FALSE)
    /\ pc' = "done"
    /\ UNCHANGED <<blk, cacheVars, attnVars, stageVars, convVars, headVars>>

MaskArgs(shape) ==
    {None, stage_attn_mask(shape[2], shape[3], shape[4], blk.window_size)}

Init ==
    /\ blk = NoBlock
    /\ inp = NoInput
    /\ out = NoOutput
    /\ pc = "start"
    /\ cache = <<>>
    /\ seen = <<>>
    /\ last = [op |-> "none"]
    /\ attn = NoAttn
    /\ fwd = [N |-> 0]
    /\ stage = NoStage
    /\ dcn = NoConv
    /\ mha = NoHeads

NextBlock ==
    \/ \E kind \in {"SwinTransformerBlock3D", "BottleneckBlock3D"},
          ws \in WindowSizes, ss \in ShiftSizes, m \in AttnModes :
          Construct(kind, ws, ss, m)
    \/ /\ pc = "built"
       /\ \E shape \in Shapes :
             \E mm \in MaskArgs(shape), cross \in BOOLEAN : SwinForward(shape, mm, cross)
    \/ /\ pc = "built"
       /\ \E shape \in Shapes :
             \E mm \in MaskArgs(shape) : BottleneckForward(shape, mm)

SpecBlock == Init /\ [][NextBlock]_vars

(***************************************************************************)
(* Blocks as a stage builds and runs them (shift zero or window // 2, the  *)
(* stage's mask), with attention that reads its window.                    *)
(***************************************************************************)
\* Largest extent of a stream on each axis.
MaxMixExt == 4

MixShifts(window_size) ==
    {<<0, 0, 0>>, [i \in 1..3 |-> window_size[i] \div 2]}

MixModes == {"mixing", "masked"}

\* Extents per axis: 1 (the window collapses to the extent), 3 (padded to
\* the next multiple of a window of 2) and MaxMixExt.
MixExtents == {1, 3, MaxMixExt}

MixShapes == {2} \X MixExtents \X MixExtents \X MixExtents \X {1}

NextMix ==
    \/ \E kind \in {"SwinTransformerBlock3D", "BottleneckBlock3D"},
          ws \in WindowSizes, m \in MixModes :
          \E ss \in MixShifts(ws) : Construct(kind, ws, ss, m)
    \/ /\ pc = "built"
       /\ \E shape \in MixShapes, cross \in BOOLEAN :
             SwinForward(shape,
                         stage_attn_mask(shape[2], shape[3], shape[4], blk.window_size),
                         cross)
    \/ /\ pc = "built"
       /\ \E shape \in MixShapes :
             BottleneckForward(shape,
                         stage_attn_mask(shape[2], shape[3], shape[4], blk.window_size))

SpecMix == Init /\ [][NextMix]_vars

(***************************************************************************)
(* BasicLayer: a stage of depth multi-modal blocks.  forward is followed   *)
(* step by step: the mask, then one step per iteration of the block loop.  *)
(* stage.calls lists the block calls made so far, each with the index of   *)
(* the block, the cross flag passed and whether the call entered the       *)
(* block's forward.                                                        *)
(***************************************************************************)
\* Largest depth and largest window edge of a stage.
MaxDepth == 3
MaxStageWin == 3

StageWindowSizes == (1..MaxStageWin) \X (1..MaxStageWin) \X (1..MaxStageWin)

StageExtents == (1..2) \X (1..2) \X (1..2)

\* Every block built with the stage's shift.
BasicLayer_blocks_all_shifted(depth, window_size, shift_size) ==
    [i1 \in 1..depth |-> [window_size |-> window_size, shift_size |-> shift_size]]

\* The blocks the ModuleList comprehension builds, block i at position i + 1.
BasicLayer_blocks(depth, window_size, shift_size) ==
    [i1 \in 1..depth |->
        [window_size |-> window_size,
         shift_size |-> IF (i1 - 1) % 2 = 0 THEN <<0, 0, 0>> ELSE shift_size]]

BasicLayer_init(depth, window_size) ==
    /\ stage = NoStage
    /\ LET shift_size == [i \in 1..3 |-> window_size[i] \div 2]
           blocks == BasicLayer_blocks(depth, window_size, shift_size)
       IN IF \A i1 \in 1..depth :
                shift_assertions(blocks[i1].window_size, blocks[i1].shift_size)
          THEN stage' = [pc |-> "built", depth |-> depth, window_size |-> window_size,
                         shift_size |-> shift_size, blocks |-> blocks,
                         x_size |-> <<>>, attn_mask |-> None, i |-> 0, calls |-> <<>>,
                         streams |-> <<>>, feature |-> <<>>]
          ELSE stage' = [pc |-> "AssertionError"]
    /\ UNCHANGED <<blockVars, cacheVars, attnVars, convVars, headVars>>

\* Parameters of SwinTransformerBlock3D.forward after self; none has a default.
SwinTransformerBlock3D_forward_params ==
    <<"t1", "t1ce", "t2", "flair", "mask_matrix", "cross">>

\* Python argument binding: the parameters a call with npos positional
\* arguments and the keyword arguments kw leaves without a value (the call
\* raises TypeError when there is one).
missing_arguments(params, npos, kw) ==
    {params[i] : i \in {i \in 1..Len(params) : i > npos /\ params[i] \notin kw}}

\* Python argument binding: the pairs <<parameter, argument>> the positional
\* arguments produce, in order.
bind_positional(params, positional) ==
    [i \in 1..Len(positional) |-> <<params[i], positional[i]>>]

\* The stage's variables t1, t1ce, t2, flair: each holds the stage's input
\* (block = -1) or the stream a block returned.
stage_inputs ==
    <<[name |-> "t1", block |-> -1], [name |-> "t1ce", block |-> -1],
      [name |-> "t2", block |-> -1], [name |-> "flair", block |-> -1]>>

\* forward up to the block loop.
BasicLayer_forward_mask(x_size) ==
    /\ stage.pc = "built"
    /\ compute_mask_call(stage_key(x_size[1], x_size[2], x_size[3],
                                   stage.window_size, "cpu"))
    /\ stage' = [stage EXCEPT !.pc = "loop", !.x_size = x_size,
                              !.attn_mask = last'.result, !.i = 0,
                              !.streams = stage_inputs]
    /\ UNCHANGED <<blockVars, attnVars, convVars, headVars>>

\* One iteration of the loop: blk(t1_t1ce, t1_t2, t1_flair, attn_mask,
\* cross=True if depth == len(self.blocks) - 1 else False).
BasicLayer_forward_block ==
    /\ stage.pc = "loop"
    /\ stage.i < Len(stage.blocks)
    /\ LET missing == missing_arguments(SwinTransformerBlock3D_forward_params,
                                        4, {"cross"})
           call == [index |-> stage.i,
                    cross |-> (stage.i = Len(stage.blocks) - 1),
                    entered |-> (missing = {}),
                    bound |-> bind_positional(SwinTransformerBlock3D_forward_params,
                                              <<"t1_t1ce", "t1_t2", "t1_flair", "attn_mask">>)]
       IN IF missing # {}
          THEN stage' = [stage EXCEPT !.pc = "TypeError", !.calls = Append(@, call)]
          ELSE \* The result is unpacked into extract_feature, t1_t1ce, t1_t2,
               \* t1_flair: t1, t1ce, t2, flair keep their values.
               stage' = [stage EXCEPT !.i = @ + 1, !.calls = Append(@, call)]
    /\ UNCHANGED <<blockVars, cacheVars, attnVars, convVars, headVars>>

\* The loop is exhausted; the rest of forward runs.
BasicLayer_forward_rest ==
    /\ stage.pc = "loop"
    /\ stage.i = Len(stage.blocks)
    /\ stage' = [stage EXCEPT !.pc = "done", !.feature = stage.streams]
    /\ UNCHANGED <<blockVars, cacheVars, attnVars, convVars, headVars>>

NextStage ==
    \/ \E depth \in 0..MaxDepth, ws \in StageWindowSizes : BasicLayer_init(depth, ws)
    \/ \E x_size \in StageExtents : BasicLayer_forward_mask(x_size)
    \/ BasicLayer_forward_block
    \/ BasicLayer_forward_rest

SpecStage == Init /\ [][NextStage]_vars

(***************************************************************************)
(* AttDeformConv3d.  Volumes are channel-first (b, c, h, w, d) tensors     *)
(* with b = 1 and one channel after conv_se.  Coordinates, offsets and     *)
(* interpolation weights are fixed-point numbers: a coordinate c is held   *)
(* as Scale * c, a trilinear weight g as Scale^3 * g.  The learned offset  *)
(* field of deformable mode is any field that is constant per axis.        *)
(***************************************************************************)
\* Coordinates are multiples of 1 / Scale.
Scale == 2

\* Largest offset magnitude, in units of 1 / Scale.
MaxOff == 9

KernelSizes == {1, 2, 3}
Paddings == {0, 1, 2}
ConvStrides == {1, 2}
ConvShapes == {<<1, 1, 1>>, <<2, 1, 1>>, <<1, 2, 1>>, <<1, 1, 2>>}

NoForward == [pc |-> "none"]

\* __init__: mode starts as "deformable".
AttDeformConv3d_init(kernel_size, stride, padding) ==
    /\ dcn = NoConv
    /\ dcn' = [pc |-> "built", kernel_size |-> kernel_size, stride |-> stride,
               padding |-> padding, mode |-> "deformable", last_on |-> "none",
               fwd |-> NoForward]
    /\ UNCHANGED <<blockVars, cacheVars, attnVars, stageVars, headVars>>

\* A switch that turns the wrong way.
mode_set_inverted(on) == IF on THEN "regular" ELSE "deformable"

\* The mode deformable_mode(on) sets.
mode_set(on) == IF on THEN "deformable" ELSE "regular"

deformable_mode(on) ==
    /\ dcn.pc = "built"
    /\ dcn' = [dcn EXCEPT !.mode = mode_set(on),
                           !.last_on = IF on THEN "True" ELSE "False"]
    /\ UNCHANGED <<blockVars, cacheVars, attnVars, stageVars, headVars>>

\* The range -(k // 2) .. k // 2.
p_n_range_symmetric(kernel_size) ==
    [i \in 1..(2 * (kernel_size \div 2) + 1) |-> i - 1 - (kernel_size \div 2)]

\* range(-(kernel_size - 1) // 2, (kernel_size - 1) // 2 + 1), as a sequence.
p_n_range(kernel_size) ==
    LET lo == (0 - (kernel_size - 1)) \div 2
        hi == ((kernel_size - 1) \div 2) + 1
    IN [i \in 1..(hi - lo) |-> lo + i - 1]

\* _get_p_n: meshgrid(indexing='ij') of the range with itself, flattened
\* and concatenated as (x1..xN, y1..yN, z1..zN); entry ch (0-based) of the
\* (1, 3N, 1, 1, 1) template, in units of 1 / Scale.
get_p_n(kernel_size) ==
    LET r == p_n_range(kernel_size)
        L == Len(r)
        M == L * L * L
    IN [ch1 \in 1..(3 * M) |->
           LET a == (ch1 - 1) \div M
               n == (ch1 - 1) % M
           IN Scale * (CASE a = 0 -> r[(n \div (L * L)) + 1]
                         [] a = 1 -> r[((n \div L) % L) + 1]
                         [] a = 2 -> r[(n % L) + 1])]

\* _get_p_0 with ranges that start at 0.
get_p_0_from_zero(h, w, d, N) ==
    Tensor(<<1, 3 * N, h, w, d>>,
           [k1 \in 1..(3 * N * h * w * d) |->
               LET a == (k1 - 1) \div (N * h * w * d)
               IN Scale * (CASE a = 0 -> ((k1 - 1) \div (w * d)) % h
                             [] a = 1 -> ((k1 - 1) \div d) % w
                             [] a = 2 -> (k1 - 1) % d)])

\* _get_p_0: meshgrid(range(1, h + 1), range(1, w + 1), range(1, d + 1)),
\* each repeated N times along the channel axis, concatenated: (1, 3N, h, w, d).
get_p_0(h, w, d, N) ==
    Tensor(<<1, 3 * N, h, w, d>>,
           [k1 \in 1..(3 * N * h * w * d) |->
               LET a == (k1 - 1) \div (N * h * w * d)
               IN Scale * (1 + CASE a = 0 -> ((k1 - 1) \div (w * d)) % h
                                 [] a = 1 -> ((k1 - 1) \div d) % w
                                 [] a = 2 -> (k1 - 1) % d)])

\* _get_p: p = p_0 + p_n + offset, (1, 3N, h, w, d) with the sizes of offset.
get_p(self, offset) ==
    LET N == offset.shape[2] \div 3
        h == offset.shape[3]
        w == offset.shape[4]
        d == offset.shape[5]
        p_n == get_p_n(self.kernel_size)
        p_0 == get_p_0(h, w, d, N)
    IN Tensor(offset.shape,
              [k1 \in 1..numel(offset) |->
                  p_0.data[k1] + p_n[((k1 - 1) \div (h * w * d)) + 1] + offset.data[k1]])

\* Output extent of nn.Conv3d(kernel_size, padding, stride = 1) on extent n.
conv_output_size(n, kernel_size, padding) == n + 2 * padding - kernel_size + 1

\* offset = offset_conv_kernel(x) * att(offset): a (1, 3N, h', w', d') field
\* whose value on axis a is o[a + 1], in units of 1 / Scale.
learned_offset(self, x, o) ==
    LET N == self.kernel_size * self.kernel_size * self.kernel_size
        h == conv_output_size(x.shape[3], self.kernel_size, self.padding)
        w == conv_output_size(x.shape[4], self.kernel_size, self.padding)
        d == conv_output_size(x.shape[5], self.kernel_size, self.padding)
    IN Tensor(<<1, 3 * N, h, w, d>>,
              [k1 \in 1..(3 * N * h * w * d) |-> o[((k1 - 1) \div (N * h * w * d)) + 1]])

\* torch.zeros(b, 3 * kernel_size ** 3, h, w, d)
zero_offset(self, x) ==
    LET C == 3 * self.kernel_size * self.kernel_size * self.kernel_size
    IN Tensor(<<1, C, x.shape[3], x.shape[4], x.shape[5]>>,
              [k1 \in 1..(C * x.shape[3] * x.shape[4] * x.shape[5]) |-> 0])

\* p[:, :, ::stride, ::stride, ::stride]
stride_slice(p, stride) ==
    LET ext(a) == (p.shape[a] + stride - 1) \div stride
        newshape == <<p.shape[1], p.shape[2], ext(3), ext(4), ext(5)>>
        ns == Strides(newshape)
        os == Strides(p.shape)
        src(k) == FlatS([a \in 1..5 |->
                            LET c == (k \div ns[a]) % newshape[a]
                            IN IF a >= 3 THEN c * stride ELSE c], os)
    IN Tensor(newshape, [k1 \in 1..Prod(newshape) |-> Get(p, src(k1 - 1))])

\* A clamp whose upper bound is ignored.
clamp_low_only(v, lo, hi) == IF v < lo THEN lo ELSE v

\* torch.clamp(v, lo, hi)
clamp(v, lo, hi) == IF v < lo THEN lo ELSE IF v > hi THEN hi ELSE v

\* floor of a fixed-point number, as an integer.
floor(v) == v \div Scale

\* The axis (0, 1, 2) a channel of a (..., 3N) tensor belongs to.
axis_of(k, N) == (k % (3 * N)) \div N

\* torch.cat([clamp(q[..., :N], 0, x.size(2) - 1), clamp(q[..., N:2N], 0,
\* x.size(3) - 1), clamp(q[..., 2N:], 0, x.size(4) - 1)], dim=-1).long()
clamp_q(q, x, N) ==
    Tensor(q.shape, [k1 \in 1..numel(q) |->
                        clamp(q.data[k1], 0, x.shape[3 + axis_of(k1 - 1, N)] - 1)])

\* The eight corners, named by the smaller / larger choice on each axis.
Corners == {"sss", "lll", "ssl", "sls", "sll", "lss", "lsl", "lls"}

letter(corner, a) ==
    CASE corner = "sss" -> "s"
      [] corner = "lll" -> "l"
      [] corner = "ssl" -> <<"s", "s", "l">>[a + 1]
      [] corner = "sls" -> <<"s", "l", "s">>[a + 1]
      [] corner = "sll" -> <<"s", "l", "l">>[a + 1]
      [] corner = "lss" -> <<"l", "s", "s">>[a + 1]
      [] corner = "lsl" -> <<"l", "s", "l">>[a + 1]
      [] corner = "lls" -> <<"l", "l", "s">>[a + 1]

\* q_ssl = torch.cat([q_sss[..., :N], q_sss[..., N:2N], q_lll[..., 2N:]], -1), etc.
q_corner(corner, q_sss, q_lll, N) ==
    Tensor(q_sss.shape,
           [k1 \in 1..numel(q_sss) |->
               IF letter(corner, axis_of(k1 - 1, N)) = "s"
               THEN q_sss.data[k1] ELSE q_lll.data[k1]])

\* mask = p.lt(padding) + p.gt(x.size(a) - 1 - padding);
\* p = p * (1 - mask) + floor_p * mask; then p is clamped per axis.
clamp_p(self, p, x, N) ==
    Tensor(p.shape,
           [k1 \in 1..numel(p) |->
               LET size == x.shape[3 + axis_of(k1 - 1, N)]
                   v == p.data[k1]
                   mask == \/ v < Scale * self.padding
                           \/ v > Scale * (size - 1 - self.padding)
                   floor_p == Scale * floor(v)
                   masked == IF mask THEN floor_p ELSE v
               IN clamp(masked, 0, Scale * (size - 1))])

\* g_sss = (1 + (q_sss[..., :N] - p[..., :N])) * ..., with 1 - (...) on the
\* axes where the corner takes the larger coordinate: (1, h, w, d, N), in
\* units of 1 / Scale^3.
g_corner(corner, q, p, N) ==
    LET shape == <<p.shape[1], p.shape[2], p.shape[3], p.shape[4], N>>
        f(vox, n, a) ==
            LET j == vox * 3 * N + a * N + n + 1
                diff == Scale * q.data[j] - p.data[j]
            IN IF letter(corner, a) = "s" THEN Scale + diff ELSE Scale - diff
    IN Tensor(shape,
              [k1 \in 1..Prod(shape) |->
                  LET vox == (k1 - 1) \div N
                      n == (k1 - 1) % N
                  IN f(vox, n, 0) * f(vox, n, 1) * f(vox, n, 2)])

\* index = q[..., :N] * padded_w * padded_d + q[..., N:2N] * padded_d + q[..., 2N:]
get_x_q_index(x, q, N) ==
    LET padded_w == x.shape[4]
        padded_d == x.shape[5]
        shape == <<q.shape[1], q.shape[2], q.shape[3], q.shape[4], N>>
    IN Tensor(shape,
              [k1 \in 1..Prod(shape) |->
                  LET vox == (k1 - 1) \div N
                      n == (k1 - 1) % N
                      j == vox * 3 * N + n + 1
                  IN q.data[j] * padded_w * padded_d
                     + q.data[j + N] * padded_d + q.data[j + 2 * N]])

\* Whether x.view(b, c, -1).gather(dim=-1, index) accepts every index.
gather_in_range(x, index) ==
    \A k1 \in 1..numel(index) : index.data[k1] >= 0 /\ index.data[k1] < numel(x)

\* _get_x_q: x.view(b, c, -1).gather(dim=-1, index).view(b, c, h, w, d, N); an
\* index the gather rejects reads nothing here and is reported by gather_in_range.
get_x_q(x, q, N) ==
    LET index == get_x_q_index(x, q, N)
    IN Tensor(<<1, 1>> \o SubSeq(index.shape, 2, 5),
              [k1 \in 1..numel(index) |->
                  IF index.data[k1] >= 0 /\ index.data[k1] < numel(x)
                  THEN Get(x, index.data[k1]) ELSE 0])

\* g_sss * x_q_sss + g_lll * x_q_lll + ... at one flat position k1.
RECURSIVE weighted_sum(_, _, _, _)
weighted_sum(g, x_q, k1, corners) ==
    IF corners = {} THEN 0
    ELSE LET c == CHOOSE c \in corners : TRUE
         IN g[c].data[k1] * x_q[c].data[k1] + weighted_sum(g, x_q, k1, corners \ {c})

\* _reshape_x_offset: permute(0, 1, 5, 2, 3, 4), view(b, c * N, h, w, d)
reshape_x_offset(x_offset, ks) ==
    LET y == permute(x_offset, <<0, 1, 5, 2, 3, 4>>)
    IN view(y, <<y.shape[1], y.shape[2] * y.shape[3], y.shape[4], y.shape[5], y.shape[6]>>)

\* The output of conv_se: one channel, every voxel a distinct non-zero value.
conv_se(x_shape) ==
    Tensor(<<1, 1, x_shape[1], x_shape[2], x_shape[3]>>,
           [k1 \in 1..(x_shape[1] * x_shape[2] * x_shape[3]) |-> k1])

\* forward, from the choice of the offset field to the input of conv_kernel.
AttDeformConv3d_sample(self, x0, offset) ==
    LET N == offset.shape[2] \div 3
        x == IF self.padding # 0
             THEN F_pad(x0, [i \in 1..6 |-> self.padding], 0) ELSE x0
        p0 == permute(stride_slice(get_p(self, offset), self.stride), <<0, 2, 3, 4, 1>>)
        floor_q == Tensor(p0.shape, [k1 \in 1..numel(p0) |-> floor(p0.data[k1])])
        q_sss == clamp_q(floor_q, x, N)
        q_lll == clamp_q(Tensor(p0.shape, [k1 \in 1..numel(p0) |-> floor_q.data[k1] + 1]), x, N)
        q == [c \in Corners |-> q_corner(c, q_sss, q_lll, N)] @@ <<>>
        p == clamp_p(self, p0, x, N)
        g == [c \in Corners |-> g_corner(c, q[c], p, N)] @@ <<>>
        index == [c \in Corners |-> get_x_q_index(x, q[c], N)] @@ <<>>
        x_q == [c \in Corners |-> get_x_q(x, q[c], N)] @@ <<>>
        ok == \A c \in Corners : gather_in_range(x, index[c])
        x_offset == Tensor(x_q["sss"].shape,
                           [k1 \in 1..numel(x_q["sss"]) |->
                               weighted_sum(g, x_q, k1, Corners)])
    IN [pc |-> IF ok THEN "done" ELSE "IndexError",
        mode |-> self.mode, N |-> N, x_se |-> x0, x |-> x, offset |-> offset,
        p_unclamped |-> p0, p |-> p, q_sss |-> q_sss, q_lll |-> q_lll,
        g |-> g, index |-> index,
        x_offset |-> x_offset,
        conv_kernel_input |-> reshape_x_offset(x_offset, self.kernel_size)]

\* forward(x): o is the value of the learned offset field on each axis.
AttDeformConv3d_forward(x_shape, o) ==
    /\ dcn.pc = "built"
    /\ LET x == conv_se(x_shape)
           fits == \A a \in 3..5 :
                       conv_output_size(x.shape[a], dcn.kernel_size, dcn.padding) >= 1
       IN dcn' = [dcn EXCEPT !.fwd =
                     IF dcn.mode = "deformable"
                     THEN IF fits
                          THEN AttDeformConv3d_sample(dcn, x, learned_offset(dcn, x, o))
                          ELSE [pc |-> "RuntimeError", mode |-> dcn.mode]
                     ELSE AttDeformConv3d_sample(dcn, x, zero_offset(dcn, x))]
    /\ UNCHANGED <<blockVars, cacheVars, attnVars, stageVars, headVars>>

\* Offset fields: no offset, half a voxel, and far below / above the volume,
\* alike on the three axes or different on each.
OffsetFields ==
    {<<0, 0, 0>>, <<1, 1, 1>>, <<0 - MaxOff, 0 - MaxOff, 0 - MaxOff>>,
     <<MaxOff, MaxOff, MaxOff>>, <<0 - MaxOff, 1, MaxOff>>,
     <<MaxOff, 0 - MaxOff, 1>>, <<1, MaxOff, 0 - MaxOff>>}

NextConv ==
    \/ \E k \in KernelSizes, s \in ConvStrides, pd \in Paddings :
           AttDeformConv3d_init(k, s, pd)
    \/ \E on \in BOOLEAN : dcn.pc = "built" /\ dcn.fwd = NoForward /\ deformable_mode(on)
    \/ \E x_shape \in ConvShapes, o \in OffsetFields :
           dcn.pc = "built" /\ dcn.fwd = NoForward /\ AttDeformConv3d_forward(x_shape, o)

SpecConv == Init /\ [][NextConv]_vars

ModeShapes == {<<1, 1, 1>>, <<1, 2, 1>>}
ModeOffsets == {<<0, 0, 0>>, <<1, 0 - MaxOff, MaxOff>>}

NextConvMode ==
    \/ \E k \in KernelSizes, s \in ConvStrides, pd \in Paddings :
           AttDeformConv3d_init(k, s, pd)
    \/ \E on \in BOOLEAN : deformable_mode(on)
    \/ \E x_shape \in ModeShapes, o \in ModeOffsets : AttDeformConv3d_forward(x_shape, o)

SpecConvMode == Init /\ [][NextConvMode]_vars

(***************************************************************************)
(* Windowed attention: heads.  Construction computes head_dim and scale,   *)
(* the forward pass reshapes the projections into heads.                   *)
(***************************************************************************)
\* Largest embedding dimension and largest number of heads.
MaxDim == 4
MaxHeads == 5

\* (B_, N) of the windows a module is run on.
HeadWindows == {1, 2} \X {1, 8}

\* A reshape that accepts any target shape.
reshape_accepts_any(from_shape, to_shape) == TRUE

\* Whether tensor.reshape(to_shape) accepts a tensor of shape from_shape.
reshape_accepts(from_shape, to_shape) == Prod(from_shape) = Prod(to_shape)

\* __init__ of both attention modules: head_dim = dim // num_heads,
\* scale = qk_scale or head_dim ** -0.5 (0 ** -0.5 raises ZeroDivisionError).
WindowAttention3D_init(kind, dim, num_heads, qk_scale) ==
    /\ mha = NoHeads
    /\ LET head_dim == dim \div num_heads
       IN mha' = IF qk_scale = "None" /\ head_dim = 0
                 THEN [pc |-> "ZeroDivisionError", kind |-> kind, dim |-> dim,
                       num_heads |-> num_heads]
                 ELSE [pc |-> "built", kind |-> kind, dim |-> dim,
                       num_heads |-> num_heads,
                       scale |-> IF qk_scale = "None" THEN "head_dim ** -0.5" ELSE qk_scale,
                       out |-> [pc |-> "none"]]
    /\ UNCHANGED <<blockVars, cacheVars, attnVars, stageVars, convVars>>

\* self.qkv(x).reshape(B_, N, 3, num_heads, C // num_heads)
SelfWindowAttention3D_heads(self, x_shape) ==
    LET B_ == x_shape[1]
        N == x_shape[2]
        C == x_shape[3]
    IN reshape_accepts(<<B_, N, 3 * self.dim>>,
                       <<B_, N, 3, self.num_heads, C \div self.num_heads>>)

\* self.query(x), self.key(y), self.value(y), each
\* .reshape(B_, N, num_heads, C // num_heads)
CrossWindowAttention3D_heads(self, x_shape) ==
    LET B_ == x_shape[1]
        N == x_shape[2]
        C == x_shape[3]
        to == <<B_, N, self.num_heads, C \div self.num_heads>>
    IN /\ reshape_accepts(<<B_, N, self.dim>>, to)
       /\ reshape_accepts(<<B_, N, self.dim>>, to)
       /\ reshape_accepts(<<B_, N, self.dim>>, to)

\* forward of either module on windows of shape (B_, N, dim): the reshape
\* into heads raises a shape error or the pass returns (B_, N, C).
WindowAttention3D_forward(B_, N) ==
    /\ mha.pc = "built"
    /\ LET x_shape == <<B_, N, mha.dim>>
           ok == IF mha.kind = "SelfWindowAttention3D"
                 THEN SelfWindowAttention3D_heads(mha, x_shape)
                 ELSE CrossWindowAttention3D_heads(mha, x_shape)
       IN mha' = [mha EXCEPT !.out =
                     IF ok
                     THEN [pc |-> "done", x_shape |-> x_shape,
                           heads |-> <<B_, mha.num_heads, N, mha.dim \div mha.num_heads>>,
                           shape |-> x_shape]
                     ELSE [pc |-> "RuntimeError", x_shape |-> x_shape]]
    /\ UNCHANGED <<blockVars, cacheVars, attnVars, stageVars, convVars>>

NextHeads ==
    \/ \E kind \in {"SelfWindowAttention3D", "CrossWindowAttention3D"},
          dim \in 1..MaxDim, num_heads \in 1..MaxHeads, qk_scale \in {"None", "qk_scale"} :
          WindowAttention3D_init(kind, dim, num_heads, qk_scale)
    \/ \E w \in HeadWindows : WindowAttention3D_forward(w[1], w[2])

SpecHeads == Init /\ [][NextHeads]_vars

(***************************************************************************)
(* Relative position bias of the windowed attention modules: the index     *)
(* table built by the constructors and the rows a forward pass reads from  *)
(* relative_position_bias_table for windows of N tokens.                   *)
(***************************************************************************)
\* torch.stack(torch.meshgrid(arange(Wd), arange(Wh), arange(Ww))):
\* shape (3, Wd, Wh, Ww), coords[a] holds coordinate a of every position.
meshgrid_coords(window_size) ==
    LET shape == <<3>> \o window_size
        st == Strides(shape)
    IN Tensor(shape,
              [k1 \in 1..Prod(shape) |->
                  LET a == (k1 - 1) \div st[1]
                  IN ((k1 - 1) \div st[a + 2]) % shape[a + 2]])

\* coords_flatten[:, :, None] - coords_flatten[:, None, :]
broadcast_sub(cf) ==
    LET N == cf.shape[2]
    IN Tensor(<<3, N, N>>,
              [k1 \in 1..(3 * N * N) |->
                  LET a == (k1 - 1) \div (N * N)
                      i == ((k1 - 1) \div N) % N
                      j == (k1 - 1) % N
                  IN Get(cf, a * N + i) - Get(cf, a * N + j)])

\* x[:, :, c] += v
iadd_last(x, c, v) ==
    Tensor(x.shape, [k1 \in 1..numel(x) |->
                        IF (k1 - 1) % x.shape[3] = c THEN x.data[k1] + v ELSE x.data[k1]])

\* x[:, :, c] *= v
imul_last(x, c, v) ==
    Tensor(x.shape, [k1 \in 1..numel(x) |->
                        IF (k1 - 1) % x.shape[3] = c THEN x.data[k1] * v ELSE x.data[k1]])

\* x.sum(-1) of a (N, M, 3) tensor
sum_last(x) ==
    Tensor(<<x.shape[1], x.shape[2]>>,
           [k1 \in 1..(x.shape[1] * x.shape[2]) |->
               x.data[3 * k1 - 2] + x.data[3 * k1 - 1] + x.data[3 * k1]])

\* The index table without the shift of the offsets to start from 0.
relative_position_index_unshifted(window_size) ==
    LET coords_flatten == view(meshgrid_coords(window_size), <<3, -1>>)
        r0 == permute(broadcast_sub(coords_flatten), <<1, 2, 0>>)
        r4 == imul_last(r0, 0, (2 * window_size[2] - 1) * (2 * window_size[3] - 1))
        r5 == imul_last(r4, 1, 2 * window_size[3] - 1)
    IN sum_last(r5)

SelfWindowAttention3D_relative_position_index(window_size) ==
    LET coords_flatten == view(meshgrid_coords(window_size), <<3, -1>>)
        r0 == permute(broadcast_sub(coords_flatten), <<1, 2, 0>>)
        r1 == iadd_last(r0, 0, window_size[1] - 1)
        r2 == iadd_last(r1, 1, window_size[2] - 1)
        r3 == iadd_last(r2, 2, window_size[3] - 1)
        r4 == imul_last(r3, 0, (2 * window_size[2] - 1) * (2 * window_size[3] - 1))
        r5 == imul_last(r4, 1, 2 * window_size[3] - 1)
    IN sum_last(r5)

CrossWindowAttention3D_relative_position_index(window_size) ==
    LET coords_flatten == view(meshgrid_coords(window_size), <<3, -1>>)
        r0 == permute(broadcast_sub(coords_flatten), <<1, 2, 0>>)
        r1 == iadd_last(r0, 0, window_size[1] - 1)
        r2 == iadd_last(r1, 1, window_size[2] - 1)
        r3 == iadd_last(r2, 2, window_size[3] - 1)
        r4 == imul_last(r3, 0, (2 * window_size[2] - 1) * (2 * window_size[3] - 1))
        r5 == imul_last(r4, 1, 2 * window_size[3] - 1)
    IN sum_last(r5)

\* Number of rows of relative_position_bias_table.
bias_table_rows(window_size) ==
    (2 * window_size[1] - 1) * (2 * window_size[2] - 1) * (2 * window_size[3] - 1)

\* self.relative_position_index[:N, :N]: the table row read for every
\* token pair of a window of N tokens.
SelfWindowAttention3D_bias_rows(self, N) ==
    LET idx == self.relative_position_index
    IN Tensor(<<N, N>>,
              [k1 \in 1..(N * N) |->
                  Get(idx, ((k1 - 1) \div N) * idx.shape[2] + ((k1 - 1) % N))])

CrossWindowAttention3D_bias_rows(self, N) ==
    LET idx == self.relative_position_index
    IN Tensor(<<N, N>>,
              [k1 \in 1..(N * N) |->
                  Get(idx, ((k1 - 1) \div N) * idx.shape[2] + ((k1 - 1) % N))])

\* A (1, D, H, W, 1) stream whose element at voxel (d, h, w) is <<d, h, w>>.
Voxels(D, H, W) ==
    Tensor(<<1, D, H, W, 1>>,
           [k1 \in 1..(D * H * W) |->
               <<(k1 - 1) \div (H * W), ((k1 - 1) \div W) % H, (k1 - 1) % W>>])

\* Largest window edge of an attention module, and largest stream extent
\* it is run on.
MaxRpiWin == 3

RpiWindowSizes == (1..MaxRpiWin) \X (1..MaxRpiWin) \X (1..MaxRpiWin)

\* A block constructor building its self- and cross-attention modules,
\* all with the block's window_size.
AttnConstruct(window_size) ==
    /\ attn = NoAttn
    /\ attn' = [window_size |-> window_size,
                table_rows |-> bias_table_rows(window_size),
                self_attn |-> [relative_position_index |->
                    SelfWindowAttention3D_relative_position_index(window_size)],
                cross_attn |-> [relative_position_index |->
                    CrossWindowAttention3D_relative_position_index(window_size)]]
    /\ UNCHANGED <<fwd, blockVars, cacheVars, stageVars, convVars, headVars>>

\* forward_part1 on streams of extent x_size: the block pads to a multiple
\* of the effective window and partitions; each module reads the bias rows
\* for windows of N tokens.
AttnForward(x_size) ==
    /\ attn # NoAttn
    /\ fwd.N = 0
    /\ LET window_size == get_window_size(x_size, attn.window_size, <<0, 0, 0>>).use_window_size
           x_windows == window_partition(
                            Voxels(CeilMul(x_size[1], window_size[1]),
                                   CeilMul(x_size[2], window_size[2]),
                                   CeilMul(x_size[3], window_size[3])),
                            window_size)
           N == x_windows.shape[2]
       IN fwd' = [N |-> N,
                  x_size |-> x_size,
                  window_size |-> window_size,
                  x_windows |-> x_windows,
                  self_rows |-> SelfWindowAttention3D_bias_rows(attn.self_attn, N),
                  cross_rows |-> CrossWindowAttention3D_bias_rows(attn.cross_attn, N)]
    /\ UNCHANGED <<attn, blockVars, cacheVars, stageVars, convVars, headVars>>

NextAttn ==
    \/ \E ws \in RpiWindowSizes : AttnConstruct(ws)
    \/ \E x_size \in RpiWindowSizes : AttnForward(x_size)

SpecAttn == Init /\ [][NextAttn]_vars

(***************************************************************************)
(* Calls of compute_mask.  SpecCache: any sequence of calls over a few     *)
(* stage geometries on two devices.  SpecLru: a scan over MaxKeys distinct *)
(* geometries that may come back to the first one at any time.  SpecMask:  *)
(* one call, on any geometry with extents that are multiples of the        *)
(* window and 0 <= shift < window.                                         *)
(***************************************************************************)
Devices == {"cpu", "cuda"}

CacheExtents == {<<3, 3, 1>>, <<2, 2, 1>>}

CacheKeys ==
    {stage_key(e[1], e[2], e[3], <<2, 2, 2>>, dev) : e \in CacheExtents, dev \in Devices}

\* The n-th geometry of the scan (n = 0, 1, ...): streams of a stage with
\* window (1,1,1), alternating devices.
ScanKey(n) ==
    LET m == n \div 2
    IN stage_key((m % 6) + 1, ((m \div 6) % 4) + 1, (m \div 24) + 1, <<1, 1, 1>>,
                 IF n % 2 = 0 THEN "cpu" ELSE "cuda")

ScanCalls ==
    (IF Len(seen) < MaxKeys THEN {ScanKey(Len(seen))} ELSE {})
    \cup (IF Len(seen) > 0 THEN {ScanKey(0)} ELSE {})

\* <<window, shift, extent>> of one axis: the extent is one window (which
\* is then the first and the last one) or two.
AxisGeometries ==
    {<<w, s, n * w>> : w \in 1..MaxMaskWin, s \in 0..(MaxMaskWin - 1), n \in {1, 2}}
    \cap {g \in (1..MaxMaskWin) \X (0..MaxMaskWin) \X (1..(2 * MaxMaskWin)) : g[2] < g[1]}

MaskKeys ==
    {<<d[3], h[3], w[3], <<d[1], h[1], w[1]>>, <<d[2], h[2], w[2]>>, "cpu">> :
        d \in AxisGeometries, h \in AxisGeometries, w \in AxisGeometries}

NextCache == \E key \in CacheKeys : compute_mask(key)

NextLru == \E key \in ScanCalls : compute_mask(key)

NextMask == Len(seen) = 0 /\ \E key \in MaskKeys : compute_mask(key)

SpecCache == Init /\ [][NextCache]_vars

SpecLru == Init /\ [][NextLru]_vars

SpecMask == Init /\ [][NextMask]_vars

(***************************************************************************)
(* Properties of a block's forward pass.                                   *)
(***************************************************************************)
StreamNames ==
    IF blk.kind = "SwinTransformerBlock3D" THEN <<"t1", "t1ce", "t2", "flair">>
    ELSE <<"x">>

\* What the element of flat index k of the normalised input stream s is
\* computed from: the channels of its own voxel.
VoxelOf(s, k) ==
    LET C == inp.shape[5]
    IN {<<StreamNames[s], (k \div C) * C + c>> : c \in 0..(C - 1)}

Extent == <<inp.shape[2], inp.shape[3], inp.shape[4]>>

\* C1: with the attention replaced by the identity, pad -> roll(-shift) ->
\* window_partition -> window_reverse -> roll(+shift) -> crop returns every
\* voxel of the (normalised) volume at its own (b,d,h,w,c) position and
\* nothing else, for every extent, window and shift 0 <= shift < window.
C1_RoundTrip ==
    (pc = "done" /\ blk.attn_mode = "identity") =>
        \A s \in 1..Len(out.streams) :
            /\ out.streams[s].shape = inp.shape
            /\ Len(out.streams[s].data) = Prod(inp.shape)
            /\ \A k \in 0..(Prod(inp.shape) - 1) :
                  Get(out.streams[s], k) = VoxelOf(s, k)

C1_Witness ==
    /\ pc = "done"
    /\ blk.attn_mode = "identity"
    /\ out.shift_size = <<1, 1, 1>>
    /\ out.pads = <<1, 1, 1>>
    /\ Len(out.streams) = 4
    /\ inp.shape = <<2, 3, 3, 3, 1>>
    /\ Get(out.streams[4], 0) = {<<"flair", 0>>}
    /\ Get(out.streams[4], 53) = {<<"flair", 53>>}

\* C2: get_window_size decides each axis on its own: extent <= window gives
\* (extent, 0), otherwise the configured (window, shift); so the window it
\* returns never exceeds the extent.
C2_GetWindowSize ==
    pc = "done" =>
        \A i \in 1..3 :
            /\ IF Extent[i] <= blk.window_size[i]
               THEN out.window_size[i] = Extent[i] /\ out.shift_size[i] = 0
               ELSE /\ out.window_size[i] = blk.window_size[i]
                    /\ out.shift_size[i] = blk.shift_size[i]
            /\ out.window_size[i] <= Extent[i]

C2_Witness ==
    /\ pc = "done"
    /\ blk.window_size = <<2, 2, 2>>
    /\ blk.shift_size = <<1, 1, 1>>
    /\ Extent = <<2, 1, 3>>
    /\ out.window_size = <<2, 1, 2>>
    /\ out.shift_size = <<0, 0, 1>>

\* C7: with effective shift (0,0,0) every attention call gets mask None and
\* nothing is rolled, whatever mask_matrix was passed; otherwise all streams
\* are rolled by -shift before and +shift after, and every attention call
\* gets the caller's mask_matrix.
C7_ShiftAndMask ==
    pc = "done" =>
        IF out.shift_size = <<0, 0, 0>>
        THEN /\ out.roll_before = <<>>
             /\ out.roll_after = <<>>
             /\ \A i \in 1..Len(out.attn_calls) : out.attn_calls[i].mask = None
        ELSE /\ out.roll_before = neg(out.shift_size)
             /\ out.roll_after = out.shift_size
             /\ \A i \in 1..Len(out.attn_calls) :
                   out.attn_calls[i].mask = inp.mask_matrix

C7_Witness ==
    /\ pc = "done"
    /\ blk.shift_size = <<1, 1, 1>>
    /\ out.shift_size = <<0, 1, 0>>
    /\ inp.mask_matrix # None
    /\ inp.cross
    /\ Len(out.attn_calls) = 8
    /\ out.attn_calls[8].mask = inp.mask_matrix

\* C8: on every axis the padding is (w - e % w) % w, lies in [0, w) and
\* makes the padded extent the smallest multiple of w that is >= e; it is
\* added at the high end only (the voxel at index x stays at index x, the
\* rest is zero); the crop removes it, so every output stream has the shape
\* of its input stream.
C8_Padding ==
    pc = "done" =>
        /\ \A i \in 1..3 :
              LET w == out.window_size[i]
                  e == Extent[i]
              IN /\ out.pads[i] = (w - (e % w)) % w
                 /\ out.pads[i] >= 0 /\ out.pads[i] < w
                 /\ (e + out.pads[i]) % w = 0
        /\ \A s \in 1..Len(out.padded) :
              /\ out.padded[s].shape =
                    <<inp.shape[1], Extent[1] + out.pads[1], Extent[2] + out.pads[2],
                      Extent[3] + out.pads[3], inp.shape[5]>>
              /\ LET ps == Strides(out.padded[s].shape)
                     is == Strides(inp.shape)
                 IN \A k \in 0..(numel(out.padded[s]) - 1) :
                       LET m == [a \in 1..5 |-> (k \div ps[a]) % out.padded[s].shape[a]]
                       IN Get(out.padded[s], k) =
                             IF \A a \in 1..5 : m[a] < inp.shape[a]
                             THEN VoxelOf(s, FlatS(m, is))
                             ELSE {}
        /\ \A s \in 1..Len(out.streams) : out.streams[s].shape = inp.shape

C8_Witness ==
    /\ pc = "done"
    /\ Extent = <<3, 3, 3>>
    /\ out.window_size = <<2, 2, 2>>
    /\ out.pads = <<1, 1, 1>>
    /\ out.padded[1].shape = <<2, 4, 4, 4, 1>>
    /\ out.streams[1].shape = <<2, 3, 3, 3, 1>>

(***************************************************************************)
(* Properties of the mask cache and of the mask.                           *)
(***************************************************************************)
Called == last.op = "compute_mask"

BuiltFor(key) == compute_mask_body(key[1], key[2], key[3], key[4], key[5], key[6])

Min(a, b) == IF a < b THEN a ELSE b

\* C3 as stated: the cache never evicts, so a call with any key passed
\* before returns the cached mask without running the builder again.
C3_NeverEvicts ==
    (Called /\ last.since >= 0) => (last.hit /\ last.body_runs = 0)

\* C3, amended: the cache keeps the maxsize (128) most recently used keys.
\* A call returns the cached mask without running the builder exactly when
\* its key was passed before and fewer than 128 other distinct keys were
\* passed since; the cached keys are the (at most 128) most recently passed.
C3_KeepsMostRecent ==
    /\ Len(cache) = Min(Len(seen), maxsize)
    /\ \A i \in 1..Len(cache) : cache[i].key = seen[Len(seen) - Len(cache) + i]
    /\ Called =>
          /\ last.hit <=> (last.since >= 0 /\ last.since < maxsize)
          /\ last.body_runs = (IF last.hit THEN 0 ELSE 1)

C3_Witness ==
    /\ Called
    /\ Len(seen) > maxsize
    /\ last.since = maxsize - 1
    /\ last.hit
    /\ last.body_runs = 0

\* C4: a call repeating the key of the call before it is answered from the
\* cache and does not run the body; a call with a key never passed before
\* runs the body once and stores the result under that key; what a call
\* returns, and what the cache holds under a key, is the mask built for
\* that very key.
C4_Memoised ==
    /\ \A i \in 1..Len(cache) :
          /\ cache[i].result = BuiltFor(cache[i].key)
          /\ \A j \in 1..Len(cache) : cache[j].key = cache[i].key => j = i
    /\ Called =>
          /\ last.result = BuiltFor(last.key)
          /\ last.since = 0 => (last.hit /\ last.body_runs = 0)
          /\ last.since = -1 => (~last.hit /\ last.body_runs = 1)
          /\ CacheIndex(cache, last.key) > 0
          /\ cache[CacheIndex(cache, last.key)].result = last.result

C4_Witness ==
    /\ Called
    /\ last.since = 0
    /\ last.hit
    /\ last.key[6] = "cuda"
    /\ last.result.device = "cuda"
    /\ \E i \in 1..Len(cache) :
          cache[i].key[6] = "cpu" /\ SubSeq(cache[i].key, 1, 5) = SubSeq(last.key, 1, 5)

\* Region of index x on an axis of length L with window w and shift s.
Region(x, L, w, s) ==
    IF s > 0 THEN (IF x < L - w THEN 0 ELSE IF x < L - s THEN 1 ELSE 2) ELSE 0

\* Regions of token i of window k: windows and tokens are numbered row-major.
TokenRegions(key, k, i) ==
    LET L == <<key[1], key[2], key[3]>>
        w == key[4]
        nw == [a \in 1..3 |-> L[a] \div w[a]]
    IN [a \in 1..3 |->
           Region(Coord(k, nw, a) * w[a] + Coord(i, w, a), L[a], w[a], key[5][a])]

\* C5: the mask has shape (numWindows, N, N); entry [k][i][j] is 0 when
\* tokens i and j of window k lie in the same region and -100 otherwise,
\* the regions being [0,L-w), [L-w,L-s), [L-s,L) on an axis with shift
\* s > 0 and the whole axis when the shift is 0.
C5_MaskRegions ==
    Called =>
        LET key == last.key
            nW == (key[1] \div key[4][1]) * (key[2] \div key[4][2]) * (key[3] \div key[4][3])
            N == key[4][1] * key[4][2] * key[4][3]
        IN /\ last.result.shape = <<nW, N, N>>
           /\ Len(last.result.data) = nW * N * N
           /\ \A k \in 0..(nW - 1) :
                 LET reg == [i \in 0..(N - 1) |-> TokenRegions(key, k, i)]
                 IN \A i, j \in 0..(N - 1) :
                       last.result.data[(k * N + i) * N + j + 1] =
                           IF reg[i] = reg[j] THEN 0 ELSE -100
           /\ key[5] = <<0, 0, 0>> =>
                 \A q \in 1..Len(last.result.data) : last.result.data[q] = 0

C5_Witness ==
    /\ Called
    /\ last.key = <<4, 4, 4, <<2, 2, 2>>, <<1, 1, 1>>, "cpu">>
    /\ last.result.shape = <<8, 8, 8>>
    /\ Cardinality({TokenRegions(last.key, 7, i) : i \in 0..7}) = 8
    /\ Cardinality({TokenRegions(last.key, k, i) : k \in 0..7, i \in 0..7}) = 27
    /\ last.result.data[7 * 64 + 2] = -100

\* C6: every mask is symmetric, holds only 0 and -100, and is 0 on the
\* diagonal.
C6_MaskSymmetric ==
    Called =>
        LET nW == last.result.shape[1]
            N == last.result.shape[2]
            m(k, i, j) == last.result.data[(k * N + i) * N + j + 1]
        IN \A k \in 0..(nW - 1) : \A i, j \in 0..(N - 1) :
              /\ m(k, i, j) = m(k, j, i)
              /\ m(k, i, j) \in {0, -100}
              /\ m(k, i, i) = 0

C6_Witness ==
    /\ Called
    /\ last.key[5] = <<1, 0, 1>>
    /\ \E q \in 1..Len(last.result.data) : last.result.data[q] = -100
    /\ \E q \in 1..Len(last.result.data) : last.result.data[q] = 0

(***************************************************************************)
(* Properties of the relative position bias.                               *)
(***************************************************************************)
\* Row-major coordinates of token i in a window of size w.
WinCoord(i, w) == <<i \div (w[2] * w[3]), (i \div w[3]) % w[2], i % w[3]>>

Diff(a, b) == <<a[1] - b[1], a[2] - b[2], a[3] - b[3]>>

\* Table row of a coordinate offset for a module of window size w.
RowOf(off, w) ==
    (off[1] + w[1] - 1) * (2 * w[2] - 1) * (2 * w[3] - 1)
    + (off[2] + w[2] - 1) * (2 * w[3] - 1)
    + (off[3] + w[3] - 1)

\* C9: the relative position index of a module of window (Wd,Wh,Ww) is a
\* (Wd*Wh*Ww) x (Wd*Wh*Ww) table with index[i][j] =
\* (di-dj+Wd-1)(2Wh-1)(2Ww-1) + (hi-hj+Wh-1)(2Ww-1) + (wi-wj+Ww-1); every
\* entry is in [0, (2Wd-1)(2Wh-1)(2Ww-1)); two pairs have the same entry
\* exactly when they have the same coordinate difference; the self- and the
\* cross-attention constructor build the same table.
C9_RelativePositionIndex ==
    attn # NoAttn =>
        LET w == attn.window_size
            N == w[1] * w[2] * w[3]
            idx == attn.self_attn.relative_position_index
            off(i, j) == Diff(WinCoord(i, w), WinCoord(j, w))
            pairs == {<<Get(idx, i * N + j), off(i, j)>> : i \in 0..(N - 1), j \in 0..(N - 1)}
        IN /\ idx.shape = <<N, N>>
           /\ Len(idx.data) = N * N
           /\ \A i \in 0..(N - 1), j \in 0..(N - 1) :
                 /\ Get(idx, i * N + j) = RowOf(off(i, j), w)
                 /\ 0 <= Get(idx, i * N + j)
                 /\ Get(idx, i * N + j) < (2 * w[1] - 1) * (2 * w[2] - 1) * (2 * w[3] - 1)
           \* entry and difference determine each other
           /\ Cardinality({p[1] : p \in pairs}) = Cardinality(pairs)
           /\ Cardinality({p[2] : p \in pairs}) = Cardinality(pairs)
           /\ attn.cross_attn.relative_position_index = idx

\* Modules of window (2,3,2): 12 tokens; the pair (first token, last token)
\* reads row 0, the pair (last, first) the last row of the table.
C9_Witness ==
    /\ attn # NoAttn
    /\ attn.window_size = <<2, 3, 2>>
    /\ attn.cross_attn.relative_position_index.shape = <<12, 12>>
    /\ Get(attn.cross_attn.relative_position_index, 11) = 0
    /\ Get(attn.self_attn.relative_position_index, 11 * 12) = attn.table_rows - 1

\* Offset between tokens i and j of window b of the latest forward pass.
TokenOffset(b, i, j) ==
    Diff(Get(fwd.x_windows, b * fwd.N + i), Get(fwd.x_windows, b * fwd.N + j))

\* C10: in a forward pass on windows of N tokens laid out with the
\* effective window size, the bias row read for the token pair (i, j) is
\* the table row of the coordinate offset between i and j: same offset,
\* same row; different offsets, different rows; every row is in the table.
C10_BiasRowOfOffset ==
    fwd.N > 0 =>
        \A rows \in {fwd.self_rows, fwd.cross_rows} :
        \A b \in 0..(fwd.x_windows.shape[1] - 1), i \in 0..(fwd.N - 1), j \in 0..(fwd.N - 1) :
            LET r == Get(rows, i * fwd.N + j)
            IN /\ r = RowOf(TokenOffset(b, i, j), attn.window_size)
               /\ 0 <= r /\ r < attn.table_rows
               /\ \A k \in 0..(fwd.N - 1), l \in 0..(fwd.N - 1) :
                     (r = Get(rows, k * fwd.N + l))
                        <=> (TokenOffset(b, i, j) = TokenOffset(b, k, l))

(***************************************************************************)
(* Properties of the data flow through the attention stage of a block.     *)
(***************************************************************************)
Partner(name) ==
    CASE name = "t1" -> "t1ce"
      [] name = "t1ce" -> "t1"
      [] name = "t2" -> "flair"
      [] name = "flair" -> "t2"

\* Streams the element of flat index k of output stream s is computed from.
StreamsRead(s, k) == {d[1] : d \in Get(out.streams[s], k)}

\* C11: in the multi-modal block, with cross = FALSE every output stream
\* is computed from its own input stream alone, by one self-attention call;
\* with cross = TRUE it is computed from its own stream and its partner
\* (t1 <-> t1ce, t2 <-> flair) and from nothing else, as self-attention of
\* the stream plus cross-attention with the stream as query and the partner
\* as key/value, cross_attn_1 serving both directions of t1/t1ce and
\* cross_attn_2 both directions of t2/flair.
C11_StreamDependence ==
    (pc = "done" /\ blk.kind = "SwinTransformerBlock3D" /\ blk.attn_mode # "identity") =>
        /\ \A s \in 1..4 : \A k \in 0..(Prod(inp.shape) - 1) :
              StreamsRead(s, k) =
                  IF inp.cross THEN {StreamNames[s], Partner(StreamNames[s])}
                  ELSE {StreamNames[s]}
        /\ Len(out.attn_calls) = (IF inp.cross THEN 8 ELSE 4)
        /\ \A s \in 1..4 :
              LET self_call == out.attn_calls[IF inp.cross THEN 2 * s - 1 ELSE s]
              IN /\ self_call.module = "self_attn_" \o StreamNames[s]
                 /\ self_call.query = StreamNames[s]
                 /\ self_call.key_value = StreamNames[s]
        /\ inp.cross =>
              \A s \in 1..4 :
                 LET cross_call == out.attn_calls[2 * s]
                 IN /\ cross_call.module = (IF s <= 2 THEN "cross_attn_1" ELSE "cross_attn_2")
                    /\ cross_call.query = StreamNames[s]
                    /\ cross_call.key_value = Partner(StreamNames[s])

C11_Witness ==
    /\ pc = "done"
    /\ blk.kind = "SwinTransformerBlock3D"
    /\ blk.attn_mode = "masked"
    /\ inp.cross
    /\ out.shift_size = <<1, 1, 1>>
    /\ StreamsRead(4, 0) = {"flair", "t2"}
    /\ out.attn_calls[8].module = "cross_attn_2"
    /\ out.attn_calls[8].key_value = "t2"

\* <<b, d, h, w>> of the element of flat index k of a stream.
VoxelAt(k) ==
    LET st == Strides(inp.shape)
    IN [a \in 1..4 |-> (k \div st[a]) % inp.shape[a]]

\* The origin-aligned window (of the effective window size) a voxel lies in.
AlignedWindow(m) ==
    <<m[1], m[2] \div out.window_size[1], m[3] \div out.window_size[2],
      m[4] \div out.window_size[3]>>

\* C12: with zero (effective) shift, through normalise, pad, partition,
\* attention, reverse and crop every output voxel is computed only from
\* input voxels of its own origin-aligned window (of the same sample): a
\* change of one input voxel reaches no output voxel outside that window.
C12_WindowLocal ==
    (pc = "done" /\ blk.attn_mode # "identity" /\ out.shift_size = <<0, 0, 0>>) =>
        \A s \in 1..Len(out.streams) : \A k \in 0..(Prod(inp.shape) - 1) :
            \A d \in Get(out.streams[s], k) :
                AlignedWindow(VoxelAt(d[2])) = AlignedWindow(VoxelAt(k))

\* Extent (3,4,4), window (1,2,2), zero shift: the output voxel (0,3,3) of
\* sample 1 reads the four voxels of its window, among them (0,2,2).
C12_Witness ==
    /\ pc = "done"
    /\ blk.attn_mode = "mixing"
    /\ blk.kind = "BottleneckBlock3D"
    /\ blk.shift_size = <<0, 0, 0>>
    /\ out.window_size = <<1, 2, 2>>
    /\ inp.shape = <<2, 3, 4, 4, 1>>
    /\ Get(out.streams[1], 48 + 15) = {<<"x", 48 + 10>>, <<"x", 48 + 11>>,
                                       <<"x", 48 + 14>>, <<"x", 48 + 15>>}

\* The block of the current state, had it been built with shift (0,0,0),
\* run on the same input.
ZeroShiftOut ==
    LET self == [blk EXCEPT !.shift_size = <<0, 0, 0>>]
    IN IF blk.kind = "SwinTransformerBlock3D"
       THEN SwinTransformerBlock3D_forward_part1(self, Stream("t1", inp.shape),
                Stream("t1ce", inp.shape), Stream("t2", inp.shape),
                Stream("flair", inp.shape), inp.mask_matrix, inp.cross)
       ELSE BottleneckBlock3D_forward_part1(self, Stream("x", inp.shape),
                inp.mask_matrix, FALSE)

\* Output elements <<stream, flat index>> computed from input element v.
Influence(streams, v) ==
    {sk \in (1..Len(streams)) \X (0..(Prod(inp.shape) - 1)) :
        v \in Get(streams[sk[1]], sk[2])}

\* The same, looking at the output elements cand only.
InfluenceAmong(streams, v, cand) ==
    {sk \in cand : v \in Get(streams[sk[1]], sk[2])}

\* Output streams that read input stream s.
Readers(s) ==
    IF blk.kind = "SwinTransformerBlock3D" /\ inp.cross
    THEN {s, CHOOSE t \in 1..4 : StreamNames[t] = Partner(StreamNames[s])}
    ELSE {s}

\* Indices on one axis of the origin-aligned window of index c, and of the
\* window of index c in the grid displaced cyclically by the shift s.
AxisAligned(c, w) == {(c \div w) * w + i : i \in 0..(w - 1)}

AxisShifted(c, w, s, L) ==
    {((((c - s) % L) \div w) * w + i + s) % L : i \in 0..(w - 1)}

\* Flat indices of the voxels of sample b in a box of per-axis index sets.
Box(b, Ds, Hs, Ws) ==
    LET st == Strides(inp.shape)
    IN {FlatS(<<b, d, h, w, c>>, st) :
           d \in Ds, h \in Hs, w \in Ws, c \in 0..(inp.shape[5] - 1)}

AlignedBox(k) ==
    LET m == VoxelAt(k)
    IN Box(m[1], AxisAligned(m[2], out.window_size[1]),
                 AxisAligned(m[3], out.window_size[2]),
                 AxisAligned(m[4], out.window_size[3]))

ShiftedBox(k) ==
    LET m == VoxelAt(k)
    IN Box(m[1],
           AxisShifted(m[2], out.window_size[1], out.shift_size[1], inp.shape[2]),
           AxisShifted(m[3], out.window_size[2], out.shift_size[2], inp.shape[3]),
           AxisShifted(m[4], out.window_size[3], out.shift_size[3], inp.shape[4]))

\* The scenario at model scale: two windows of edge 2 per axis, shift 1.
Scenario13 ==
    /\ pc = "done"
    /\ blk.attn_mode # "identity"
    /\ blk.window_size = <<2, 2, 2>>
    /\ blk.shift_size = <<1, 1, 1>>
    /\ Extent = <<4, 4, 4>>

\* C13 as stated: on the input of the zero-shift scenario, the block run
\* with shift window/2 lets every single input voxel influence strictly
\* more output voxels than the block run with zero shift.
C13_ShiftInfluencesMore ==
    Scenario13 =>
        LET zero == ZeroShiftOut.streams
        IN \A s \in 1..Len(out.streams), k \in 0..(Prod(inp.shape) - 1) :
              Cardinality(Influence(out.streams, <<StreamNames[s], k>>))
                 > Cardinality(Influence(zero, <<StreamNames[s], k>>))

\* C13, amended: when the extents are multiples of the window, a block with
\* a positive shift does not enlarge the set of output voxels an input voxel
\* influences, it moves it.  With zero shift the set is the voxel's
\* origin-aligned window; with shift it lies inside the voxel's window of
\* the grid displaced cyclically by the shift, a different box of the same
\* volume, and is never larger than with zero shift: it is that whole box
\* when every token of a window has a non-zero weight, and the part of it
\* the mask leaves at 0 otherwise.
C13_ShiftMovesInfluence ==
    (pc = "done" /\ blk.attn_mode # "identity" /\ any_positive(out.shift_size)
        /\ out.pads = <<0, 0, 0>>) =>
        LET zero == ZeroShiftOut.streams
            n == Prod(inp.shape)
        IN /\ \A s \in 1..Len(out.streams), k \in 0..(n - 1) :
                 /\ \A d \in Get(out.streams[s], k) :
                       k \in ShiftedBox(d[2]) /\ d[1] \in {StreamNames[t] : t \in Readers(s)}
                 /\ \A d \in Get(zero[s], k) :
                       k \in AlignedBox(d[2]) /\ d[1] \in {StreamNames[t] : t \in Readers(s)}
           /\ \A s \in 1..Len(out.streams), k \in 0..(n - 1) :
                 LET v == <<StreamNames[s], k>>
                     cand == Readers(s) \X (AlignedBox(k) \cup ShiftedBox(k))
                     infS == InfluenceAmong(out.streams, v, cand)
                     infZ == InfluenceAmong(zero, v, cand)
                 IN /\ infZ = Readers(s) \X AlignedBox(k)
                    /\ infS \subseteq Readers(s) \X ShiftedBox(k)
                    /\ blk.attn_mode = "mixing" => infS = Readers(s) \X ShiftedBox(k)
                    /\ Cardinality(infS) <= Cardinality(infZ)
                    /\ AlignedBox(k) # ShiftedBox(k)
                    /\ Cardinality(AlignedBox(k)) = Cardinality(ShiftedBox(k))

\* Voxel (0,0,0) of t1 in the scenario: with shift it influences the eight
\* voxels with every coordinate in {3, 0} (its displaced window, wrapped
\* around the volume) of t1 and t1ce, with zero shift the eight voxels with
\* every coordinate in {0, 1}.
C13_Witness ==
    /\ Scenario13
    /\ blk.kind = "SwinTransformerBlock3D"
    /\ blk.attn_mode = "mixing"
    /\ inp.cross
    /\ ShiftedBox(0) = {0, 3, 12, 15, 48, 51, 60, 63}
    /\ Influence(out.streams, <<"t1", 0>>) = {1, 2} \X ShiftedBox(0)
    /\ Influence(ZeroShiftOut.streams, <<"t1", 0>>) = {1, 2} \X {0, 1, 4, 5, 16, 17, 20, 21}

(***************************************************************************)
(* Properties of a stage.                                                  *)
(***************************************************************************)
StageForwardOver == stage.pc \in {"done", "TypeError"}

\* C14: a forward pass of a stage of depth blocks calls block 0, 1, ...,
\* depth-1 in this order, every call entering the block, with cross = TRUE
\* for block depth-1 and cross = FALSE for every other block.
C14_CrossOnLastBlock ==
    StageForwardOver =>
        /\ Len(stage.calls) = stage.depth
        /\ \A c \in 1..Len(stage.calls) :
              /\ stage.calls[c].index = c - 1
              /\ stage.calls[c].entered
              /\ stage.calls[c].cross = (c = stage.depth)

\* C15: in every stage the block at an even index is built with shift
\* (0,0,0) and the block at an odd index with the stage's shift, which is
\* window_size[i] // 2 on every axis; every block has 0 <= shift < window.
C15_AlternatingShift ==
    stage.pc \notin {"none", "AssertionError"} =>
        /\ Len(stage.blocks) = stage.depth
        /\ \A a \in 1..3 : stage.shift_size[a] = stage.window_size[a] \div 2
        /\ \A i \in 0..(stage.depth - 1) :
              /\ stage.blocks[i + 1].window_size = stage.window_size
              /\ stage.blocks[i + 1].shift_size =
                    (IF i % 2 = 0 THEN <<0, 0, 0>> ELSE stage.shift_size)
              /\ \A a \in 1..3 :
                    /\ 0 <= stage.blocks[i + 1].shift_size[a]
                    /\ stage.blocks[i + 1].shift_size[a] < stage.blocks[i + 1].window_size[a]
    /\ stage.pc # "AssertionError"

C15_Witness ==
    /\ stage.pc = "built"
    /\ stage.depth = 3
    /\ stage.window_size = <<3, 2, 1>>
    /\ stage.blocks[1].shift_size = <<0, 0, 0>>
    /\ stage.blocks[2].shift_size = <<1, 1, 0>>
    /\ stage.blocks[3].shift_size = <<0, 0, 0>>

(***************************************************************************)
(* AttDeformConv3d: properties.                                            *)
(***************************************************************************)
\* A forward pass that reached the sampling step.
Sampled == dcn.pc = "built" /\ dcn.fwd.pc \in {"done", "IndexError"}

\* A forward pass that returned.
ConvRan == dcn.pc = "built" /\ dcn.fwd.pc = "done"

\* The output voxels of the last forward pass, as 0-based flat positions.
OutVoxels == 0..((numel(dcn.fwd.p) \div (3 * dcn.fwd.N)) - 1)

\* The 0-based coordinate of output voxel vox on axis a (0, 1, 2).
OutCoord(vox, a) ==
    LET s == dcn.fwd.p.shape
    IN CASE a = 0 -> (vox \div (s[3] * s[4])) % s[2]
         [] a = 1 -> (vox \div s[4]) % s[3]
         [] a = 2 -> vox % s[4]

\* Tap n of a k * k * k kernel as a displacement, centred for odd k.
TapOffset(n, k) ==
    <<(n \div (k * k)) - (k \div 2), ((n \div k) % k) - (k \div 2), (n % k) - (k \div 2)>>

\* The channel-reduced input, zero outside the volume, at real position r.
InputAt(r) ==
    LET x0 == dcn.fwd.x_se
    IN IF \A a \in 1..3 : r[a] >= 0 /\ r[a] < x0.shape[2 + a]
       THEN Get(x0, (r[1] * x0.shape[4] + r[2]) * x0.shape[5] + r[3])
       ELSE 0

\* The sum of the eight interpolation weights of tap n at output voxel vox.
TotalWeight(vox, n) ==
    weighted_sum(dcn.fwd.g, [c \in Corners |-> [data |-> [k \in 1..numel(dcn.fwd.g[c]) |-> 1]]],
                 vox * dcn.fwd.N + n + 1, Corners)

\* The value gathered for tap n at output voxel vox.
Gathered(vox, n) == dcn.fwd.x_offset.data[vox * dcn.fwd.N + n + 1]

\* Regular mode with kernel 3, padding 1, stride 1.
RegularCase ==
    /\ ConvRan
    /\ dcn.fwd.mode = "regular"
    /\ dcn.kernel_size = 3 /\ dcn.padding = 1 /\ dcn.stride = 1

\* The number of axes on which tap n at voxel vox lands on the last padded index.
HighBorderAxes(vox, n) ==
    Cardinality({a \in 0..2 :
        OutCoord(vox, a) + TapOffset(n, 3)[a + 1] + 1 = dcn.fwd.x.shape[3 + a] - 1})

Pow2(m) == CASE m = 0 -> 1 [] m = 1 -> 2 [] m = 2 -> 4 [] m = 3 -> 8

C17_BaseGrid ==
    (Sampled /\ dcn.stride = 1) =>
        LET s == dcn.fwd.offset.shape
            p_0 == get_p_0(s[3], s[4], s[5], dcn.fwd.N)
        IN \A vox \in OutVoxels, ch \in 0..(3 * dcn.fwd.N - 1) :
               p_0.data[ch * Cardinality(OutVoxels) + vox + 1]
                   = Scale * (OutCoord(vox, ch \div dcn.fwd.N) + dcn.padding)

\* The per-axis displacements of the sampling template of kernel size k.
AxisOffsets(k, a) ==
    {get_p_n(k)[a * (Len(get_p_n(k)) \div 3) + n] : n \in 1..(Len(get_p_n(k)) \div 3)}

\* C18 (as stated): for every kernel size k the template has k^3 taps whose
\* per-axis offsets range over -floor(k/2) .. floor(k/2), tap n = (i*k + j)*k + l
\* taking the i-th, j-th and l-th offset on the three axes.
C18_TemplateSymmetric ==
    Sampled =>
        LET k == dcn.kernel_size
            p_n == get_p_n(k)
        IN /\ Len(p_n) = 3 * k * k * k
           /\ \A a \in 0..2 :
                  AxisOffsets(k, a) = {Scale * t : t \in (0 - (k \div 2))..(k \div 2)}
           /\ \A i \in 0..(k - 1), j \in 0..(k - 1), l \in 0..(k - 1) :
                  LET n == (i * k + j) * k + l
                  IN /\ p_n[n + 1] = Scale * (i - (k \div 2))
                     /\ p_n[k * k * k + n + 1] = Scale * (j - (k \div 2))
                     /\ p_n[2 * k * k * k + n + 1] = Scale * (l - (k \div 2))

\* C18 (amended): for every kernel size k the template has k^3 taps whose
\* per-axis offsets range over -floor(k/2) .. floor((k-1)/2), which is
\* -floor(k/2) .. floor(k/2) exactly when k is odd; tap n = (i*k + j)*k + l
\* takes the i-th, j-th and l-th offset on the three axes.
C18_Template ==
    Sampled =>
        LET k == dcn.kernel_size
            p_n == get_p_n(k)
        IN /\ Len(p_n) = 3 * k * k * k
           /\ \A a \in 0..2 :
                  AxisOffsets(k, a) = {Scale * t : t \in (0 - (k \div 2))..((k - 1) \div 2)}
           /\ \A i \in 0..(k - 1), j \in 0..(k - 1), l \in 0..(k - 1) :
                  LET n == (i * k + j) * k + l
                  IN /\ p_n[n + 1] = Scale * (i - (k \div 2))
                     /\ p_n[k * k * k + n + 1] = Scale * (j - (k \div 2))
                     /\ p_n[2 * k * k * k + n + 1] = Scale * (l - (k \div 2))
           /\ \A vox \in OutVoxels, ch \in 0..(3 * k * k * k - 1) :
                  dcn.stride = 1 =>
                      dcn.fwd.p_unclamped.data[vox * 3 * k * k * k + ch + 1]
                          = Scale * (OutCoord(vox, ch \div (k * k * k)) + 1) + p_n[ch + 1]
                            + dcn.fwd.offset.data[ch * Cardinality(OutVoxels) + vox + 1]

\* A forward pass with an even kernel size.
C18_Witness == Sampled /\ dcn.kernel_size = 2 /\ dcn.stride = 1

\* C19: whatever the offsets, the forward pass does not raise on its gather:
\* every sampling coordinate lies in [0, padded size - 1], so do the corner
\* coordinates, and the flat index of each corner is inside the flattened
\* padded volume and addresses the voxel with those coordinates.
C19_InBounds ==
    Sampled =>
        /\ dcn.fwd.pc = "done"
        /\ \A vox \in OutVoxels, ch \in 0..(3 * dcn.fwd.N - 1) :
               LET k1 == vox * 3 * dcn.fwd.N + ch + 1
                   size == dcn.fwd.x.shape[3 + (ch \div dcn.fwd.N)]
               IN /\ dcn.fwd.p.data[k1] >= 0 /\ dcn.fwd.p.data[k1] <= Scale * (size - 1)
                  /\ dcn.fwd.q_sss.data[k1] \in 0..(size - 1)
                  /\ dcn.fwd.q_lll.data[k1] \in 0..(size - 1)
        /\ \A c \in Corners, vox \in OutVoxels, n \in 0..(dcn.fwd.N - 1) :
               LET N == dcn.fwd.N
                   ix == dcn.fwd.index[c].data[vox * N + n + 1]
                   Wp == dcn.fwd.x.shape[4]
                   Dp == dcn.fwd.x.shape[5]
                   qc(a) == LET k1 == vox * 3 * N + a * N + n + 1
                            IN IF letter(c, a) = "s"
                               THEN dcn.fwd.q_sss.data[k1] ELSE dcn.fwd.q_lll.data[k1]
               IN /\ ix >= 0 /\ ix < numel(dcn.fwd.x)
                  /\ ix \div (Wp * Dp) = qc(0)
                  /\ (ix \div Dp) % Wp = qc(1)
                  /\ ix % Dp = qc(2)

\* A deformable pass whose offsets point below the volume on one axis and
\* beyond it on another.
C19_Witness ==
    /\ ConvRan /\ dcn.fwd.mode = "deformable"
    /\ \E k1 \in 1..numel(dcn.fwd.p_unclamped) : dcn.fwd.p_unclamped.data[k1] < 0 - Scale
    /\ \E k1 \in 1..numel(dcn.fwd.p_unclamped) :
           dcn.fwd.p_unclamped.data[k1] > Scale * (MaxOff \div Scale)

\* C20: the mode is "deformable" or "regular"; it is "deformable" unless the
\* last deformable_mode call had on = false, whatever forward passes ran in
\* between; a forward pass in regular mode used an all-zero offset field of
\* 3 * kernel_size^3 channels.
C20_Mode ==
    dcn.pc = "built" =>
        /\ dcn.mode \in {"deformable", "regular"}
        /\ dcn.mode = (IF dcn.last_on = "False" THEN "regular" ELSE "deformable")
        /\ (dcn.fwd.pc = "done" /\ dcn.fwd.mode = "regular") =>
               /\ dcn.fwd.offset.shape[2]
                      = 3 * dcn.kernel_size * dcn.kernel_size * dcn.kernel_size
               /\ \A k1 \in 1..numel(dcn.fwd.offset) : dcn.fwd.offset.data[k1] = 0

\* The mode was switched back to deformable after a regular forward pass.
C20_Witness ==
    /\ dcn.pc = "built"
    /\ dcn.last_on = "True"
    /\ dcn.fwd.pc = "done" /\ dcn.fwd.mode = "regular"

(***************************************************************************)
(* Construction errors, attention heads, stage data flow, mask geometry.   *)
(***************************************************************************)
\* 0 <= shift[i] < window[i] on every axis.
ShiftInWindow(window_size, shift_size) ==
    \A i \in 1..3 : 0 <= shift_size[i] /\ shift_size[i] < window_size[i]

\* C21: a block constructed with a shift that is negative or >= the window
\* on some axis fails with an assertion error and leaves no block; every
\* block that exists has 0 <= shift[i] < window[i] on every axis, and so have
\* the effective window and shift of each of its forward passes.
C21_ShiftAsserted ==
    /\ pc = "AssertionError" => blk = NoBlock
    /\ blk # NoBlock => ShiftInWindow(blk.window_size, blk.shift_size)
    /\ pc = "done" => ShiftInWindow(out.window_size, out.shift_size)

\* A construction was rejected.
C21_Witness == pc = "AssertionError" /\ blk = NoBlock /\ out = NoOutput

\* C22 (as stated): windowed attention fails with a shape error exactly when
\* num_heads does not divide dim: such a module is never stopped by another
\* error, and its reshape into heads is rejected in every forward pass.
C22_ShapeErrorIffIndivisible ==
    /\ mha.pc # "none" =>
           /\ mha.pc = "built"
           /\ mha.out.pc = "RuntimeError" => mha.dim % mha.num_heads # 0
           /\ mha.out.pc = "done" => mha.dim % mha.num_heads = 0

\* C22 (amended): in a forward pass the reshape into heads succeeds exactly
\* when num_heads divides dim, for self- and cross-attention alike; a
\* module with num_heads > dim and no qk_scale does not get that far: its
\* construction raises ZeroDivisionError, and num_heads does not divide dim.
C22_HeadsDivideDim ==
    /\ mha.pc = "built" =>
           /\ mha.out.pc = "RuntimeError" => mha.dim % mha.num_heads # 0
           /\ mha.out.pc = "done" =>
                  /\ mha.dim % mha.num_heads = 0
                  /\ mha.out.shape = mha.out.x_shape
                  /\ mha.out.heads[2] * mha.out.heads[4] = mha.dim
    /\ mha.pc = "ZeroDivisionError" =>
           mha.num_heads > mha.dim /\ mha.dim % mha.num_heads # 0

\* A cross-attention module whose heads do not divide dim was run.
C22_Witness ==
    /\ mha.pc = "built" /\ mha.kind = "CrossWindowAttention3D"
    /\ mha.dim = 4 /\ mha.num_heads = 3
    /\ mha.out.pc = "RuntimeError"

\* C23: in a forward pass of a stage with depth >= 1 every block is called
\* with the four current streams and the stage's mask, the streams a block
\* returns are the inputs of the next block, and the streams of the last
\* block are recorded as the stage's feature.
C23_StreamsThreaded ==
    (StageForwardOver /\ stage.depth >= 1) =>
        /\ stage.pc = "done"
        /\ Len(stage.calls) = stage.depth
        /\ \A c \in 1..Len(stage.calls) :
              /\ stage.calls[c].entered
              /\ stage.calls[c].bound =
                     <<<<"t1", "t1">>, <<"t1ce", "t1ce">>, <<"t2", "t2">>,
                       <<"flair", "flair">>, <<"mask_matrix", "attn_mask">>>>
        /\ \A k \in 1..4 : stage.feature[k].block = stage.depth - 1

\* The indices, before the cyclic roll of a shifted block (torch.roll by
\* -shift), of the elements found at indices 0 .. L-1 of an axis of length L.
AxisOrigins(L, shift) ==
    roll(Tensor(<<L>>, [k1 \in 1..L |-> k1 - 1]), <<0 - shift>>, <<0>>).data

\* The origin, on axis a, of token i of window k of the mask built for key.
TokenOrigin(key, k, i, a) ==
    LET L == <<key[1], key[2], key[3]>>
        w == key[4]
        nw == <<L[1] \div w[1], L[2] \div w[2], L[3] \div w[3]>>
    IN AxisOrigins(L[a], key[5][a])[Coord(k, nw, a) * w[a] + Coord(i, w, a) + 1]

\* A geometry a stage derives with get_window_size: an axis that keeps a
\* shift is longer than its window.
StageGeometry(key) == \A a \in 1..3 : key[5][a] > 0 => key[a] > key[4][a]

\* On axis a one origin lies in the low end [0, shift) and the other in the
\* high end of the padded volume.
Wrapped(key, oi, oj, a) ==
    LET s == key[5][a]
        high == key[a] - (key[4][a] - s)
    IN /\ s > 0
       /\ \/ oi < s /\ oj >= high
          \/ oj < s /\ oi >= high

\* C24: for a geometry produced by get_window_size, two tokens of one
\* window of the rolled volume get -100 exactly when on some axis with
\* shift > 0 one comes from the low end [0, shift) and the other from the
\* high end, and 0 whenever they lie within one window's span of each other
\* on every axis before the roll.
C24_MaskSeparatesWrapped ==
    (Called /\ StageGeometry(last.key)) =>
        LET key == last.key
            nW == last.result.shape[1]
            N == last.result.shape[2]
            w == key[4]
            nw == <<key[1] \div w[1], key[2] \div w[2], key[3] \div w[3]>>
            ws == Strides(w)
            ns == Strides(nw)
            orig == <<AxisOrigins(key[1], key[5][1]), AxisOrigins(key[2], key[5][2]),
                      AxisOrigins(key[3], key[5][3])>>
            o(k, i, a) ==
                orig[a][((k \div ns[a]) % nw[a]) * w[a] + ((i \div ws[a]) % w[a]) + 1]
            tok == [t1 \in 1..(nW * N) |->
                       <<o((t1 - 1) \div N, (t1 - 1) % N, 1),
                         o((t1 - 1) \div N, (t1 - 1) % N, 2),
                         o((t1 - 1) \div N, (t1 - 1) % N, 3)>>] \o <<>>
        IN \A k \in 0..(nW - 1) : \A i, j \in 0..(N - 1) :
              LET m == last.result.data[(k * N + i) * N + j + 1]
                  oi == tok[k * N + i + 1]
                  oj == tok[k * N + j + 1]
              IN /\ m = -100 <=> \E a \in 1..3 : Wrapped(key, oi[a], oj[a], a)
                 /\ m # -100 => m = 0
                 /\ (\A a \in 1..3 : oi[a] - oj[a] < w[a] /\ oj[a] - oi[a] < w[a]) => m = 0

\* A mask for two windows of two voxels per axis, shift 1, in whose last
\* window the wrapped voxel 0 meets voxel 3.
C24_Witness ==
    /\ Called
    /\ last.key = <<4, 4, 4, <<2, 2, 2>>, <<1, 1, 1>>, "cpu">>
    /\ TokenOrigin(last.key, 7, 7, 1) = 0
    /\ TokenOrigin(last.key, 7, 0, 1) = 3
    /\ last.result.data[(7 * 8 + 7) * 8 + 0 + 1] = -100

\* The windows of a block's padded stream, each voxel holding its own flat
\* index: window_partition as the block applies it.
IndexWindows(shape, window_size) ==
    window_partition(Tensor(<<shape[1], shape[2], shape[3], shape[4], 1>>,
                            [k1 \in 1..(shape[1] * shape[2] * shape[3] * shape[4]) |-> k1 - 1]),
                     window_size)

\* C25: the mask a stage (or the encoder, for the bottleneck) computes for
\* streams of an extent fits the geometry a shifted block derives for such a
\* stream: same padded extents, effective window and effective shift; the
\* mask has the nW groups of N tokens window_partition yields per batch
\* element; window b * nW + k holds the voxels of batch element b at window
\* position k, token by token in the mask's order; and the block hands that
\* mask to its attention calls when it rolls.
C25_MaskFitsBlock ==
    (pc = "done" /\ blk.shift_size = [i \in 1..3 |-> blk.window_size[i] \div 2]) =>
        LET key == stage_key(inp.shape[2], inp.shape[3], inp.shape[4],
                             blk.window_size, "cpu")
            ps == out.padded[1].shape
            B == ps[1]
            w == out.window_size
            pw == IndexWindows(ps, w)
            nW == inp.mask_matrix.shape[1]
            N == inp.mask_matrix.shape[2]
            nw == <<ps[2] \div w[1], ps[3] \div w[2], ps[4] \div w[3]>>
            vol == ps[2] * ps[3] * ps[4]
            es == Strides(<<ps[2], ps[3], ps[4]>>)
            ws == Strides(w)
            ns == Strides(nw)
        IN /\ <<key[1], key[2], key[3]>> = <<ps[2], ps[3], ps[4]>>
           /\ key[4] = w
           /\ key[5] = out.shift_size
           /\ inp.mask_matrix.shape = <<nW, N, N>>
           /\ pw.shape = <<B * nW, N, 1>>
           /\ \A b \in 0..(B * nW - 1), i \in 0..(N - 1) :
                 LET f == Get(pw, b * N + i)
                 IN /\ f \div vol = b \div nW
                    /\ \A a \in 1..3 :
                          ((f % vol) \div es[a]) % ps[a + 1]
                              = (((b % nW) \div ns[a]) % nw[a]) * w[a]
                                + ((i \div ws[a]) % w[a])
           /\ out.shift_size # <<0, 0, 0>> =>
                 \A c \in 1..Len(out.attn_calls) : out.attn_calls[c].mask = inp.mask_matrix

\* A shifted block run on streams whose extent 3 is padded to 4 on one
\* axis and collapses the window on another: two batch elements of four
\* windows each.
C25_Witness ==
    /\ pc = "done"
    /\ blk.window_size = <<2, 2, 2>> /\ blk.shift_size = <<1, 1, 1>>
    /\ inp.shape = <<2, 3, 1, 3, 1>>
    /\ out.window_size = <<2, 1, 2>> /\ out.shift_size = <<1, 0, 1>>
    /\ inp.mask_matrix.shape = <<4, 4, 4>>

\* C26: for every sampling coordinate, each of the 8 trilinear weights of a
\* tap lies in [0, 1] and the 8 weights sum to exactly 1.
C26_WeightsSumToOne ==
    Sampled =>
        \A vox \in OutVoxels, n \in 0..(dcn.fwd.N - 1) :
            /\ \A c \in Corners :
                   LET g == dcn.fwd.g[c].data[vox * dcn.fwd.N + n + 1]
                   IN 0 <= g /\ g <= Scale * Scale * Scale
            /\ TotalWeight(vox, n) = Scale * Scale * Scale

====
